---- MODULE Spec2Model ----
(***************************************************************************)
(* A model of schrift, a register-bytecode compiler and virtual machine    *)
(* for the Ink language: the value model (val.rs, comp.rs), the scope      *)
(* stack and block compiler (gen.rs), the runtime helpers (runtime.rs) and *)
(* the dispatch loop (vm.rs).                                              *)
(*                                                                         *)
(* Registers, block indices, constant indices and heap slots are 0-based   *)
(* as in the source; TLA+ sequences are 1-based, so element i of a source  *)
(* vector v is v[i + 1] here (written At(v, i)).                           *)
(***************************************************************************)
EXTENDS Integers, Sequences, FiniteSets, TLC

At(seq, i) == seq[i + 1]

SetAt(seq, i, v) == [seq EXCEPT ![i + 1] = v]

InRange(seq, i) == i >= 0 /\ i < Len(seq)

RECURSIVE Repeat(_, _)
Repeat(v, n) == IF n <= 0 THEN <<>> ELSE <<v>> \o Repeat(v, n - 1)

(***************************************************************************)
(* Values (val.rs: enum Val).  A composite is a reference (vm.rs:302 makes *)
(* Rc<RefCell<Comp>>) into the store `comps`; cloning the value clones the *)
(* reference.  A byte string is a sequence of bytes 0..255.  Numbers are   *)
(* the integers among the f64 values.                                      *)
(***************************************************************************)
Empty == [t |-> "Empty"]

Null == [t |-> "Null"]

Number(n) == [t |-> "Number", n |-> n]

Bool(b) == [t |-> "Bool", b |-> b]

Str(s) == [t |-> "Str", s |-> s]

Comp(id) == [t |-> "Comp", id |-> id]

Func(k, captured) == [t |-> "Func", k |-> k, captured |-> captured]

NativeFunc(f) == [t |-> "NativeFunc", f |-> f]

Escaped(i) == [t |-> "Escaped", i |-> i]

(***************************************************************************)
(* AST nodes (parse.rs: enum Node).  String literals carry their bytes.    *)
(***************************************************************************)
UnaryExpr(arg) == [k |-> "UnaryExpr", arg |-> arg]

BinaryExpr(op, left, right) == [k |-> "BinaryExpr", op |-> op, left |-> left, right |-> right]

Define(left, right) == BinaryExpr("DefineOp", left, right)

Access(left, right) == BinaryExpr("AccessorOp", left, right)

FnCall(func, args) == [k |-> "FnCall", func |-> func, args |-> args]

MatchClause(target, expr) == [k |-> "MatchClause", target |-> target, expr |-> expr]

MatchExpr(cond, clauses) == [k |-> "MatchExpr", cond |-> cond, clauses |-> clauses]

ExprList(exprs) == [k |-> "ExprList", exprs |-> exprs]

EmptyIdent == [k |-> "EmptyIdent"]

Ident(name) == [k |-> "Ident", name |-> name]

NumberLiteral(n) == [k |-> "NumberLiteral", n |-> n]

StringLiteral(s) == [k |-> "StringLiteral", s |-> s]

BooleanLiteral(b) == [k |-> "BooleanLiteral", b |-> b]

ObjectEntry(key, val) == [k |-> "ObjectEntry", key |-> key, val |-> val]

ObjectLiteral(entries) == [k |-> "ObjectLiteral", entries |-> entries]

ListLiteral(items) == [k |-> "ListLiteral", items |-> items]

FnLiteral(args, body) == [k |-> "FnLiteral", args |-> args, body |-> body]

(***************************************************************************)
(* Identifier names and their bytes (String::into_bytes of an identifier   *)
(* promoted to a string key, gen.rs:320-322, 366-368, 617-619).            *)
(***************************************************************************)
NameOrder == <<"a", "b", "c", "f", "g", "h", "k", "n", "x", "y",
               "cnt", "inc", "make", "char", "len", "out", "string">>

Names == {NameOrder[i] : i \in 1..Len(NameOrder)}

into_bytes(name) ==
    CASE name = "a" -> <<97>>
      [] name = "b" -> <<98>>
      [] name = "c" -> <<99>>
      [] name = "f" -> <<102>>
      [] name = "g" -> <<103>>
      [] name = "h" -> <<104>>
      [] name = "k" -> <<107>>
      [] name = "n" -> <<110>>
      [] name = "x" -> <<120>>
      [] name = "y" -> <<121>>
      [] name = "cnt" -> <<99, 110, 116>>
      [] name = "inc" -> <<105, 110, 99>>
      [] name = "make" -> <<109, 97, 107, 101>>
      [] name = "char" -> <<99, 104, 97, 114>>
      [] name = "len" -> <<108, 101, 110>>
      [] name = "out" -> <<111, 117, 116>>
      [] name = "string" -> <<115, 116, 114, 105, 110, 103>>

(***************************************************************************)
(* Iteration order of a HashMap (gen.rs:496, 690, 749).  The order is      *)
(* unspecified; the model draws it from two opposite orders, which gives   *)
(* both relative orders of every pair of keys.                             *)
(***************************************************************************)
RECURSIVE SelectNames(_, _, _)
SelectNames(keys, i, rev) ==
    IF i > Len(NameOrder) THEN <<>>
    ELSE LET nm == NameOrder[IF rev THEN Len(NameOrder) + 1 - i ELSE i]
         IN (IF nm \in keys THEN <<nm>> ELSE <<>>) \o SelectNames(keys, i + 1, rev)

HashIter(keys, rev) == SelectNames(keys, 1, rev)

(***************************************************************************)
(* Instructions (gen.rs: enum Op, struct Inst)                             *)
(***************************************************************************)
Inst(dest, op) == [dest |-> dest, op |-> op]

OpNop == [o |-> "Nop"]

OpMov(r) == [o |-> "Mov", r |-> r]

OpEscape(r) == [o |-> "Escape", r |-> r]

OpLoadConst(i) == [o |-> "LoadConst", i |-> i]

OpLoadEsc(i) == [o |-> "LoadEsc", i |-> i]

OpCall(f, args) == [o |-> "Call", f |-> f, args |-> args]

OpCallIfEq(f, a, b, skip) == [o |-> "CallIfEq", f |-> f, a |-> a, b |-> b, skip |-> skip]

OpMakeComp == [o |-> "MakeComp"]

OpSetComp(c, key, v) == [o |-> "SetComp", c |-> c, key |-> key, v |-> v]

OpGetComp(c, key) == [o |-> "GetComp", c |-> c, key |-> key]

OpNeg(r) == [o |-> "Neg", r |-> r]

OpBin(o, a, b) == [o |-> o, a |-> a, b |-> b]

BinOps == {"Add", "Sub", "Mul", "Div", "Mod", "Gtr", "Lss", "Eql", "And", "Or", "Xor"}

\* gen.rs:383-432: the opcode of a binary token ("" where the compiler
\* answers Unimplemented)
BinOpOf(tok) ==
    CASE tok = "AddOp" -> "Add"
      [] tok = "SubOp" -> "Sub"
      [] tok = "MulOp" -> "Mul"
      [] tok = "DivOp" -> "Div"
      [] tok = "ModOp" -> "Mod"
      [] tok = "GtOp" -> "Gtr"
      [] tok = "LtOp" -> "Lss"
      [] tok = "EqOp" -> "Eql"
      [] tok = "AndOp" -> "And"
      [] tok = "OrOp" -> "Or"
      [] tok = "XorOp" -> "Xor"
      [] OTHER -> ""

(***************************************************************************)
(* Scope stack (gen.rs: ScopeRecord, ScopeStack).  A scope is a function   *)
(* from the names it holds to their records.                               *)
(***************************************************************************)
ScopeRecord(reg, from_current_scope, forward_decl, escaped) ==
    [reg |-> reg, from_current_scope |-> from_current_scope,
     forward_decl |-> forward_decl, escaped |-> escaped]

EmptyScope == [nm \in {} |-> ScopeRecord(0, FALSE, FALSE, FALSE)]

ScopeStack_new == <<EmptyScope>>

ScopeStack_push(scopes) == Append(scopes, EmptyScope)

ScopeStack_pop(scopes) == SubSeq(scopes, 1, Len(scopes) - 1)

ScopeStack_last(scopes) == scopes[Len(scopes)]

MapInsert(scope, name, rec) == (name :> rec) @@ scope

\* gen.rs:125-155.  i counts scopes from the innermost one, as
\* iter_mut().rev().enumerate() does.
RECURSIVE get_from(_, _, _)
get_from(scopes, name, i) ==
    IF i >= Len(scopes)
    THEN [scopes |-> scopes, found |-> FALSE, rec |-> ScopeRecord(0, FALSE, FALSE, FALSE)]
    ELSE LET idx == Len(scopes) - i
             scope == scopes[idx]
         IN IF name \in DOMAIN scope /\ scope[name].from_current_scope
            THEN LET rec == IF i > 0 THEN [scope[name] EXCEPT !.escaped = TRUE]
                                     ELSE scope[name]
                 IN [scopes |-> [scopes EXCEPT ![idx] = MapInsert(scope, name, rec)],
                     found |-> TRUE,
                     rec |-> ScopeRecord(rec.reg, i = 0, rec.forward_decl, rec.escaped)]
            ELSE get_from([scopes EXCEPT ![idx] =
                              MapInsert(scope, name, ScopeRecord(0, FALSE, FALSE, TRUE))],
                          name, i + 1)

ScopeStack_get(scopes, name) == get_from(scopes, name, 0)

ScopeStack_insert(scopes, name, reg) ==
    [scopes EXCEPT ![Len(scopes)] = MapInsert(@, name, ScopeRecord(reg, TRUE, FALSE, FALSE))]

ScopeStack_forward_declare(scopes, name, reg) ==
    [scopes EXCEPT ![Len(scopes)] = MapInsert(@, name, ScopeRecord(reg, TRUE, TRUE, FALSE))]

(***************************************************************************)
(* Block compiler (gen.rs: struct Block, impl Block, generate).            *)
(* The compile state g threads what the Rust code mutates: self (the block *)
(* being generated), scopes, prog (the blocks pushed by push_block), the    *)
(* register returned by the last lowering (reg) and the first error (err). *)
(***************************************************************************)
NoErr == ""

Block_new ==
    [slots |-> 0, consts |-> <<>>, binds_names |-> <<>>, binds |-> <<>>,
     code |-> <<>>, iota |-> 0]

push_inst(g, dest, op) == [g EXCEPT !.self.code = Append(@, Inst(dest, op))]

\* let dest = self.iota(); self.code.push(Inst { dest, op }); dest
emit_fresh(g, op) ==
    LET dest == g.self.iota
    IN [g EXCEPT !.self.iota = dest + 1,
                 !.self.code = Append(@, Inst(dest, op)),
                 !.reg = dest]

\* let dest = self.iota(); let const_dest = self.push_const(val);
\* self.code.push(Inst { dest, op: Op::LoadConst(const_dest) }); dest
emit_const(g, val) ==
    LET dest == g.self.iota
        const_dest == Len(g.self.consts)
    IN [g EXCEPT !.self.iota = dest + 1,
                 !.self.consts = Append(@, val),
                 !.self.code = Append(@, Inst(dest, OpLoadConst(const_dest))),
                 !.reg = dest]

\* a push that answers the position of the block among the pushed blocks
push_block_position(prog, block) == [prog |-> Append(prog, block), idx |-> Len(prog)]

\* prog.push(block); return prog.len()   (gen.rs:759-762)
push_block(prog, block) == [prog |-> Append(prog, block), idx |-> Len(prog) + 1]

\* an identifier in key position is promoted to a string literal
key_node(node) ==
    IF node.k = "Ident" THEN StringLiteral(into_bytes(node.name)) ELSE node

\* Vec::position
RECURSIVE position_from(_, _, _)
position_from(seq, x, i) ==
    IF i > Len(seq) THEN -1
    ELSE IF seq[i] = x THEN i - 1
    ELSE position_from(seq, x, i + 1)

position(seq, x) == position_from(seq, x, 1)

IsDefineIdent(node) ==
    /\ node.k = "BinaryExpr"
    /\ node.op = "DefineOp"
    /\ node.left.k = "Ident"

\* gen.rs:265-276: forward declarations of the scope's top-level defines
RECURSIVE hoist(_, _, _)
hoist(g, nodes, i) ==
    IF i > Len(nodes) THEN g
    ELSE IF IsDefineIdent(nodes[i])
    THEN hoist([g EXCEPT !.scopes = ScopeStack_forward_declare(@, nodes[i].left.name,
                                                               g.self.iota),
                         !.self.iota = @ + 1],
               nodes, i + 1)
    ELSE hoist(g, nodes, i + 1)

\* gen.rs:661-669: a parameter that is an identifier takes the next register
RECURSIVE declare_args(_, _, _)
declare_args(g, args, i) ==
    IF i > Len(args) THEN g
    ELSE IF args[i].k = "Ident"
    THEN declare_args([g EXCEPT !.scopes = ScopeStack_insert(@, args[i].name, g.self.iota),
                                !.self.iota = @ + 1],
                      args, i + 1)
    ELSE declare_args(g, args, i + 1)

\* gen.rs:670-686: the statements a function body is generated from
body_nodes(body) ==
    IF body.k = "ExprList"
    THEN IF Len(body.exprs) = 0 THEN <<ExprList(<<>>)>> ELSE body.exprs
    ELSE <<body>>

\* gen.rs:690-703 (and 496-509): ESCAPE for every escaped record of the
\* enclosing scope that is from the current scope, in iteration order
RECURSIVE emit_escapes(_, _, _, _)
emit_escapes(g, top, names, i) ==
    IF i > Len(names) THEN g
    ELSE LET rec == top[names[i]]
         IN IF rec.escaped /\ rec.from_current_scope
            THEN emit_escapes(push_inst(g, rec.reg, OpEscape(rec.reg)), top, names, i + 1)
            ELSE emit_escapes(g, top, names, i + 1)

RECURSIVE pass_thru_of(_, _, _)
pass_thru_of(top, names, i) ==
    IF i > Len(names) THEN <<>>
    ELSE (IF top[names[i]].escaped /\ ~top[names[i]].from_current_scope
          THEN <<names[i]>> ELSE <<>>) \o pass_thru_of(top, names, i + 1)

RECURSIVE generate_node(_, _)
RECURSIVE generate_each(_, _, _)
RECURSIVE generate_nodes(_, _)
RECURSIVE generate_args(_, _, _)
RECURSIVE generate_clauses(_, _, _, _, _)
RECURSIVE generate_entries(_, _, _, _)
RECURSIVE generate_items(_, _, _, _)
RECURSIVE link_pass_thru(_, _, _)

\* gen.rs:711-719 (and 517-525): the name was loaded into register g1.reg of
\* the enclosing block; record it in the scope and patch the sub-block's bind
link_bind(g1, sub, name) ==
    IF g1.err # NoErr THEN [g |-> g1, sub |-> sub]
    ELSE [g |-> [g1 EXCEPT !.scopes = ScopeStack_insert(@, name, g1.reg)],
          sub |-> [sub EXCEPT !.binds = SetAt(@, position(sub.binds_names, name), g1.reg)]]

\* gen.rs:704-720 (and 510-526): thread every pass-through name into the
\* enclosing block.  l = [g, sub]: the enclosing block's state and the
\* sub-block.  position(..).unwrap() panics when the name is no bind of sub.
link_pass_thru(l, names, i) ==
    IF i > Len(names) \/ l.g.err # NoErr THEN l
    ELSE IF position(l.sub.binds_names, names[i]) < 0
    THEN [l EXCEPT !.g.err = "panic"]
    ELSE link_pass_thru(link_bind(generate_node(l.g, Ident(names[i])), l.sub, names[i]),
                        names, i + 1)

link_scope(g, sub, top, names) ==
    link_pass_thru([g |-> emit_escapes(g, top, names, 1), sub |-> sub],
                   pass_thru_of(top, names, 1), 1)

\* the link step after a sub-block was generated and its scope popped
link_closure(g, sub) ==
    link_scope(g, sub, ScopeStack_last(g.scopes),
               HashIter(DOMAIN ScopeStack_last(g.scopes), g.rev))

\* gen.rs:722-723 (and 528-529): block_idx = push_block(block)
push_linked(linked) ==
    IF linked.g.err # NoErr THEN linked.g
    ELSE [linked.g EXCEPT !.prog = push_block(linked.g.prog, linked.sub).prog,
                          !.reg = push_block(linked.g.prog, linked.sub).idx]

\* inner is the state after the sub-block's statements were generated
close_block(g, inner) ==
    IF inner.err # NoErr THEN [inner EXCEPT !.self = g.self]
    ELSE push_linked(link_closure([inner EXCEPT !.self = g.self,
                                                !.scopes = ScopeStack_pop(@)],
                                  inner.self))

\* a sub-block generated from `nodes` in a new scope whose first registers
\* are the parameters `args`; then the link step and push_block.
\* Returns g (the enclosing block's state) with reg = the pushed block's index.
sub_block(g, args, nodes) ==
    close_block(g, generate_nodes(declare_args([g EXCEPT !.self = Block_new,
                                                         !.scopes = ScopeStack_push(@)],
                                               args, 1),
                                  nodes))

generate_each(g, nodes, i) ==
    IF i > Len(nodes) \/ g.err # NoErr THEN g
    ELSE generate_each(generate_node(g, nodes[i]), nodes, i + 1)

\* gen.rs:280: self.slots = self.iota
set_slots(done) ==
    IF done.err # NoErr THEN done ELSE [done EXCEPT !.self.slots = done.self.iota]

\* gen.rs:255-282
generate_nodes(g, nodes) == set_slots(generate_each(hoist(g, nodes, 1), nodes, 1))

collect_arg(g1, regs) == [g |-> g1, regs |-> Append(regs, g1.reg)]

\* gen.rs:437-440; a = [g, regs], regs the argument registers so far
generate_args(a, args, i) ==
    IF a.g.err # NoErr \/ i > Len(args) THEN a
    ELSE generate_args(collect_arg(generate_node(a.g, args[i]), a.regs), args, i + 1)

\* gen.rs:468-476
clause_call(g2, target_reg, cond_reg, dest, skip) ==
    IF g2.err # NoErr THEN g2
    ELSE push_inst(g2, dest, OpCallIfEq(g2.reg, cond_reg, target_reg, skip))

\* gen.rs:459-467
clause_body(g1, expr, cond_reg, dest, skip) ==
    clause_call(generate_node(g1, FnLiteral(<<>>, expr)), g1.reg, cond_reg, dest, skip)

\* gen.rs:454-477
generate_clauses(g, clauses, i, cond_reg, dest) ==
    IF i > Len(clauses) \/ g.err # NoErr THEN g
    ELSE IF clauses[i].k # "MatchClause" THEN [g EXCEPT !.err = "panic"]
    ELSE generate_clauses(
             clause_body(generate_node(g, clauses[i].target), clauses[i].expr,
                         cond_reg, dest, Len(clauses) - (i - 1) - 1),
             clauses, i + 1, cond_reg, dest)

\* SetComp(dest, key_reg, val_reg) into a fresh register
set_entry(g2, dest, key_reg) ==
    IF g2.err # NoErr THEN g2 ELSE emit_fresh(g2, OpSetComp(dest, key_reg, g2.reg))

entry_val(g1, val, dest) == set_entry(generate_node(g1, val), dest, g1.reg)

\* gen.rs:613-632
generate_entries(g, entries, i, dest) ==
    IF i > Len(entries) \/ g.err # NoErr THEN g
    ELSE IF entries[i].k # "ObjectEntry" THEN [g EXCEPT !.err = "panic"]
    ELSE generate_entries(
             entry_val(generate_node(g, key_node(entries[i].key)), entries[i].val, dest),
             entries, i + 1, dest)

\* gen.rs:641-655
generate_items(g, items, i, dest) ==
    IF i > Len(items) \/ g.err # NoErr THEN g
    ELSE generate_items(entry_val(emit_const(g, Number(i - 1)), items[i], dest),
                        items, i + 1, dest)

\* gen.rs:329-331
define_key(g3, comp_left_reg, right_reg) ==
    IF g3.err # NoErr THEN g3
    ELSE [emit_fresh(g3, OpSetComp(comp_left_reg, g3.reg, right_reg))
             EXCEPT !.reg = comp_left_reg]

\* gen.rs:317-328
define_comp(g2, key, right_reg) ==
    define_key(generate_node(g2, key_node(key)), g2.reg, right_reg)

\* gen.rs:334-347: MOV into the register the scope stack answers
define_ident(g1, name, got) ==
    IF got.found
    THEN [push_inst([g1 EXCEPT !.scopes =
                        ScopeStack_insert(got.scopes, name, got.rec.reg)],
                    got.rec.reg, OpMov(g1.reg))
             EXCEPT !.reg = got.rec.reg]
    ELSE [g1 EXCEPT !.scopes = got.scopes, !.err = "UndefinedVariable"]

\* gen.rs:312-359; g1 is the state after the right-hand side
define_left(g1, left) ==
    IF g1.err # NoErr THEN g1
    ELSE IF left.k = "BinaryExpr" /\ left.op = "AccessorOp"
    THEN define_comp(generate_node(g1, left.left), left.right, g1.reg)
    ELSE IF left.k = "Ident"
    THEN define_ident(g1, left.name, ScopeStack_get(g1.scopes, left.name))
    ELSE IF left.k = "EmptyIdent" THEN g1
    ELSE [g1 EXCEPT !.err = "InvalidAssignment"]

\* gen.rs:305-359
generate_define(g, node) == define_left(generate_node(g, node.right), node.left)

\* gen.rs:561-573: LOAD_ESC of a new bind into a fresh register
load_esc(g3, name) == [g3 EXCEPT !.scopes = ScopeStack_insert(@, name, g3.reg)]

ident_found(g, name, got) ==
    IF ~got.found THEN [g EXCEPT !.scopes = got.scopes, !.err = "UndefinedVariable"]
    ELSE IF got.rec.from_current_scope
    THEN [push_inst([g EXCEPT !.scopes = got.scopes], got.rec.reg, OpNop)
             EXCEPT !.reg = got.rec.reg]
    ELSE load_esc(emit_fresh([g EXCEPT !.scopes = got.scopes,
                                       !.self.binds_names = Append(@, name),
                                       !.self.binds = Append(@, got.rec.reg)],
                             OpLoadEsc(Len(g.self.binds))),
                  name)

\* gen.rs:548-576
generate_ident(g, name) == ident_found(g, name, ScopeStack_get(g.scopes, name))

\* gen.rs:724-729 (and 530-533): LOAD_CONST of Func(block_idx, vec![])
load_closure(g1) ==
    IF g1.err # NoErr THEN g1 ELSE emit_const(g1, Func(g1.reg, <<>>))

\* gen.rs:534-541: CALL of the closure with no arguments
call_closure(g2) ==
    IF g2.err # NoErr THEN g2 ELSE emit_fresh(g2, OpCall(g2.reg, <<>>))

\* gen.rs:480-542
generate_exprlist(g, exprs) ==
    IF Len(exprs) = 0 THEN emit_const(g, Null)
    ELSE call_closure(load_closure(sub_block(g, <<>>, exprs)))

\* gen.rs:658-730
generate_fnliteral(g, args, body) == load_closure(sub_block(g, args, body_nodes(body)))

\* gen.rs:287-296
negate(g1) == IF g1.err # NoErr THEN g1 ELSE emit_fresh(g1, OpNeg(g1.reg))

\* gen.rs:361-381
access_get(g2, left_reg) ==
    IF g2.err # NoErr THEN g2 ELSE emit_fresh(g2, OpGetComp(left_reg, g2.reg))

access_key(g1, key) == access_get(generate_node(g1, key_node(key)), g1.reg)

\* gen.rs:383-432
binary_op(g2, tok, left_reg) ==
    IF g2.err # NoErr THEN g2
    ELSE IF BinOpOf(tok) = "" THEN [g2 EXCEPT !.err = "Unimplemented"]
    ELSE emit_fresh(g2, OpBin(BinOpOf(tok), left_reg, g2.reg))

binary_right(g1, node) == binary_op(generate_node(g1, node.right), node.op, g1.reg)

\* gen.rs:434-449
call_emit(a, func_reg) ==
    IF a.g.err # NoErr THEN a.g ELSE emit_fresh(a.g, OpCall(func_reg, a.regs))

call_args(g1, args) == call_emit(generate_args([g |-> g1, regs |-> <<>>], args, 1), g1.reg)

\* the register of the composite or of the match result is the lowering's
with_dest(g2, dest) == IF g2.err # NoErr THEN g2 ELSE [g2 EXCEPT !.reg = dest]

\* gen.rs:451-479: dest = self.iota() before the clauses
match_clauses(g1, clauses) ==
    IF g1.err # NoErr THEN g1
    ELSE with_dest(generate_clauses([g1 EXCEPT !.self.iota = @ + 1], clauses, 1,
                                    g1.reg, g1.self.iota),
                   g1.self.iota)

\* gen.rs:607-635
object_entries(g1, entries) == with_dest(generate_entries(g1, entries, 1, g1.reg), g1.reg)

\* gen.rs:636-657
list_items(g1, items) == with_dest(generate_items(g1, items, 1, g1.reg), g1.reg)

\* gen.rs:286-734
generate_node(g, node) ==
    IF g.err # NoErr THEN g
    ELSE CASE node.k = "UnaryExpr" -> negate(generate_node(g, node.arg))
           [] node.k = "BinaryExpr" /\ node.op = "DefineOp" -> generate_define(g, node)
           [] node.k = "BinaryExpr" /\ node.op = "AccessorOp" ->
              access_key(generate_node(g, node.left), node.right)
           [] node.k = "BinaryExpr" /\ node.op \notin {"DefineOp", "AccessorOp"} ->
              binary_right(generate_node(g, node.left), node)
           [] node.k = "FnCall" -> call_args(generate_node(g, node.func), node.args)
           [] node.k = "MatchClause" -> [g EXCEPT !.err = "panic"]
           [] node.k = "MatchExpr" -> match_clauses(generate_node(g, node.cond), node.clauses)
           [] node.k = "ExprList" -> generate_exprlist(g, node.exprs)
           [] node.k = "EmptyIdent" -> emit_fresh(g, OpNop)
           [] node.k = "Ident" -> generate_ident(g, node.name)
           [] node.k = "NumberLiteral" -> emit_const(g, Number(node.n))
           [] node.k = "StringLiteral" -> emit_const(g, Str(node.s))
           [] node.k = "BooleanLiteral" -> emit_const(g, Bool(node.b))
           [] node.k = "ObjectEntry" -> [g EXCEPT !.err = "panic"]
           [] node.k = "ObjectLiteral" -> object_entries(emit_fresh(g, OpMakeComp), node.entries)
           [] node.k = "ListLiteral" -> list_items(emit_fresh(g, OpMakeComp), node.items)
           [] node.k = "FnLiteral" -> generate_fnliteral(g, node.args, node.body)

\* gen.rs:743-757: the runtime preamble, one LOAD_CONST per builtin in the
\* iteration order of the builtins map
Builtins == {"out", "char", "string", "len"}

bind_builtin(g1, name) == [g1 EXCEPT !.scopes = ScopeStack_insert(@, name, g1.reg)]

RECURSIVE preamble(_, _, _)
preamble(g, names, i) ==
    IF i > Len(names) THEN g
    ELSE preamble(bind_builtin(emit_const(g, NativeFunc(names[i])), names[i]),
                  names, i + 1)

\* gen.rs:764-768: the main block is prepended to the pushed blocks
link_main(g) ==
    [err |-> g.err, prog |-> IF g.err = NoErr THEN <<g.self>> \o g.prog ELSE <<>>]

\* gen.rs:737-769.  rev is the iteration order of the hash maps.
generate(nodes, rev) ==
    link_main(generate_nodes(
        preamble([self |-> Block_new, scopes |-> ScopeStack_new, prog |-> <<>>,
                  err |-> NoErr, reg |-> 0, rev |-> rev],
                 HashIter(Builtins, rev), 1),
        nodes))

(***************************************************************************)
(* Analysis (analyze.rs) and the compile pipeline (main.rs)                *)
(***************************************************************************)
\* the children analyze_node visits, in its order
analyze_children(node) ==
    CASE node.k = "UnaryExpr" -> <<node.arg>>
      [] node.k = "BinaryExpr" /\ node.op = "DefineOp" ->
             IF node.left.k = "BinaryExpr" /\ node.left.op = "AccessorOp"
             THEN <<node.right, node.left.left, node.left.right>>
             ELSE <<node.right>>
      [] node.k = "BinaryExpr" -> <<node.left, node.right>>
      [] node.k = "FnCall" -> <<node.func>> \o node.args
      [] node.k = "MatchClause" -> <<node.target, node.expr>>
      [] node.k = "MatchExpr" -> <<node.cond>> \o node.clauses
      [] node.k = "ExprList" -> node.exprs
      [] node.k = "ObjectLiteral" -> node.entries
      [] node.k = "ObjectEntry" -> <<node.key, node.val>>
      [] node.k = "ListLiteral" -> node.items
      [] node.k = "FnLiteral" -> node.args \o <<node.body>>
      [] OTHER -> <<>>

\* a define whose left side is neither a name nor an access
analyze_rejects(node) ==
    /\ node.k = "BinaryExpr"
    /\ node.op = "DefineOp"
    /\ node.left.k # "Ident"
    /\ ~(node.left.k = "BinaryExpr" /\ node.left.op = "AccessorOp")

\* a pass that accepts every left side of a define
analyze_lenient(nodes) == NoErr

\* analyze.rs:28-105: the children first, then the left side of a define
RECURSIVE analyze_node(_)
analyze_node(node) ==
    IF \E i \in 1..Len(analyze_children(node)) :
           analyze_node(analyze_children(node)[i]) # NoErr
    THEN "InvalidAssignment"
    ELSE IF analyze_rejects(node) THEN "InvalidAssignment" ELSE NoErr

\* analyze.rs:21-26
analyze(nodes) ==
    IF \E i \in 1..Len(nodes) : analyze_node(nodes[i]) # NoErr
    THEN "InvalidAssignment"
    ELSE NoErr

\* main.rs:105-147: analysis, then code generation; optimize.rs returns the
\* blocks as they are
compile(nodes, rev) ==
    IF analyze(nodes) # NoErr THEN [err |-> analyze(nodes), prog |-> <<>>]
    ELSE generate(nodes, rev)

(***************************************************************************)
(* String rendering and coercions (val.rs)                                 *)
(***************************************************************************)
RECURSIVE Digits(_)
Digits(n) == IF n < 10 THEN <<48 + n>> ELSE Digits(n \div 10) \o <<48 + (n % 10)>>

\* format!("{}", n) of an integer-valued f64
format_number(n) == IF n < 0 THEN <<45>> \o Digits(-n) ELSE Digits(n)

\* String::from_utf8_lossy over byte strings made of one- and two-byte
\* sequences: a lead byte 0xC2..0xDF followed by a continuation byte is kept,
\* every other byte >= 0x80 becomes U+FFFD (EF BF BD)
RECURSIVE from_utf8_lossy(_)
from_utf8_lossy(s) ==
    IF Len(s) = 0 THEN <<>>
    ELSE IF s[1] < 128 THEN <<s[1]>> \o from_utf8_lossy(Tail(s))
    ELSE IF s[1] >= 194 /\ s[1] <= 223 /\ Len(s) >= 2 /\ s[2] >= 128 /\ s[2] <= 191
    THEN <<s[1], s[2]>> \o from_utf8_lossy(Tail(Tail(s)))
    ELSE <<239, 191, 189>> \o from_utf8_lossy(Tail(s))

\* val.rs:101-118; Rendered(FALSE, _) is the panic of the last arm
Rendered(ok, s) == [ok |-> ok, s |-> s]

to_ink_string(v) ==
    CASE v.t = "Empty" -> Rendered(TRUE, <<95>>)
      [] v.t = "Number" -> Rendered(TRUE, format_number(v.n))
      [] v.t = "Str" -> Rendered(TRUE, from_utf8_lossy(v.s))
      [] v.t = "Bool" -> Rendered(TRUE, IF v.b THEN <<116, 114, 117, 101>>
                                               ELSE <<102, 97, 108, 115, 101>>)
      [] v.t = "Null" -> Rendered(TRUE, <<40, 41>>)
      [] v.t \in {"Func", "NativeFunc"} ->
             Rendered(TRUE, <<40, 102, 117, 110, 99, 116, 105, 111, 110, 41>>)
      [] OTHER -> Rendered(FALSE, <<>>)

\* str::parse::<usize>: an optional '+' and then one or more digits
RECURSIVE ParseDigits(_, _)
ParseDigits(s, acc) ==
    IF Len(s) = 0 THEN acc
    ELSE IF s[1] < 48 \/ s[1] > 57 THEN -1
    ELSE ParseDigits(Tail(s), acc * 10 + (s[1] - 48))

parse_usize(s) ==
    LET body == IF Len(s) > 0 /\ s[1] = 43 THEN Tail(s) ELSE s
    IN IF Len(body) = 0 THEN -1 ELSE ParseDigits(body, 0)

\* val.rs:121-136; -1 is Err(ExpectedIntegerIndex)
index_coerce(v) ==
    CASE v.t = "Number" -> IF v.n < 0 THEN 0 ELSE v.n
      [] v.t = "Str" ->
             IF \E i \in 1..Len(v.s) : v.s[i] >= 128 THEN -1 ELSE parse_usize(v.s)
      [] OTHER -> -1

\* an equality in which Empty matches on the right only
Val_eq_right(self, other) ==
    IF other.t = "Empty" THEN TRUE
    ELSE CASE self.t = "Empty" -> FALSE
           [] self.t = "Number" -> other.t = "Number" /\ self.n = other.n
           [] self.t = "Str" -> other.t = "Str" /\ self.s = other.s
           [] self.t = "Bool" -> other.t = "Bool" /\ self.b = other.b
           [] self.t = "Null" -> other.t = "Null"
           [] OTHER -> TRUE

\* val.rs:68-99
Val_eq(self, other) ==
    IF other.t = "Empty" THEN TRUE
    ELSE CASE self.t = "Empty" -> TRUE
           [] self.t = "Number" -> other.t = "Number" /\ self.n = other.n
           [] self.t = "Str" -> other.t = "Str" /\ self.s = other.s
           [] self.t = "Bool" -> other.t = "Bool" /\ self.b = other.b
           [] self.t = "Null" -> other.t = "Null"
           [] OTHER -> TRUE

(***************************************************************************)
(* Results of fallible helpers: Ok(v) or Err(e)                            *)
(***************************************************************************)
Ok(v) == [err |-> NoErr, v |-> v]

Err(e) == [err |-> e, v |-> Empty]

\* val.rs:139-164; the result value is the new byte string
set_on_bytestring(s, key, val) ==
    LET index == index_coerce(key)
    IN IF index < 0 THEN Err("ExpectedIntegerIndex")
       ELSE IF val.t # "Str" THEN Err("ExpectedString")
       ELSE IF index > Len(s) THEN Err("IndexOutOfBounds")
       ELSE LET appendee == val.s
                s1 == IF index = Len(s) THEN s \o appendee ELSE s
                s2 == IF Len(s1) < index + Len(appendee)
                      THEN s1 \o Repeat(0, index + Len(appendee) - Len(s1))
                      ELSE s1
            IN Ok(Str([i \in 1..Len(s2) |->
                          IF i > index /\ i <= index + Len(appendee)
                          THEN appendee[i - index] ELSE s2[i]]))

\* val.rs:166-174; PanicVal is the out-of-bounds panic of s[index]
PanicErr == "panic"

get_from_bytestring(s, key) ==
    LET index == index_coerce(key)
    IN IF index < 0 THEN Err("ExpectedIntegerIndex")
       ELSE IF index > Len(s) THEN Ok(Null)
       ELSE IF index = Len(s) THEN Err(PanicErr)
       ELSE Ok(Str(<<s[index + 1]>>))

(***************************************************************************)
(* Arithmetic (runtime.rs).  A number that is not an integer (the quotient *)
(* of an inexact division, a division by zero) is the value Inexact.       *)
(***************************************************************************)
Inexact == [t |-> "Number", n |-> 0, inexact |-> TRUE]

IsInt(v) == v.t = "Number" /\ DOMAIN v = {"t", "n"}

Abs(n) == IF n < 0 THEN -n ELSE n

Max(a, b) == IF a < b THEN b ELSE a

neg(v) ==
    CASE v.t = "Number" -> Ok(IF IsInt(v) THEN Number(-v.n) ELSE Inexact)
      [] v.t = "Bool" -> Ok(Bool(~v.b))
      [] OTHER -> Err("InvalidOperand")

NumOp(o, a, b) ==
    IF ~IsInt(a) \/ ~IsInt(b) THEN Inexact
    ELSE CASE o = "Add" -> Number(a.n + b.n)
           [] o = "Sub" -> Number(a.n - b.n)
           [] o = "Mul" -> Number(a.n * b.n)
           [] o = "Div" -> IF b.n # 0 /\ a.n % b.n = 0 THEN Number(a.n \div b.n)
                           ELSE Inexact
           [] o = "Mod" -> IF b.n = 0 THEN Inexact
                           ELSE Number((IF a.n < 0 THEN -1 ELSE 1) * (Abs(a.n) % Abs(b.n)))

add(a, b) ==
    CASE a.t = "Number" /\ b.t = "Number" -> Ok(NumOp("Add", a, b))
      [] a.t = "Str" /\ b.t = "Str" -> Ok(Str(a.s \o b.s))
      [] a.t = "Bool" /\ b.t = "Bool" -> Ok(Bool(a.b \/ b.b))
      [] OTHER -> Err("InvalidOperand")

sub(a, b) ==
    IF a.t = "Number" /\ b.t = "Number" THEN Ok(NumOp("Sub", a, b))
    ELSE Err("InvalidOperand")

mul(a, b) ==
    CASE a.t = "Number" /\ b.t = "Number" -> Ok(NumOp("Mul", a, b))
      [] a.t = "Bool" /\ b.t = "Bool" -> Ok(Bool(a.b /\ b.b))
      [] OTHER -> Err("InvalidOperand")

div(a, b) ==
    IF a.t = "Number" /\ b.t = "Number" THEN Ok(NumOp("Div", a, b))
    ELSE Err("InvalidOperand")

modulus(a, b) ==
    IF a.t = "Number" /\ b.t = "Number" THEN Ok(NumOp("Mod", a, b))
    ELSE Err("InvalidOperand")

\* bitwise operation on two naturals below 2^w, bit by bit
RECURSIVE Bitwise(_, _, _, _)
Bitwise(o, x, y, w) ==
    IF w = 0 THEN 0
    ELSE LET bx == x % 2
             by == y % 2
             bit == CASE o = "And" -> IF bx = 1 /\ by = 1 THEN 1 ELSE 0
                      [] o = "Or" -> IF bx = 1 \/ by = 1 THEN 1 ELSE 0
                      [] o = "Xor" -> IF bx # by THEN 1 ELSE 0
         IN bit + 2 * Bitwise(o, x \div 2, y \div 2, w - 1)

\* (a as i64 <op> b as i64) as f64, on integers of 16 bits in two's complement
\* (the operation is bitwise, so the width only has to cover the operands)
IntBits == 16

IntBitwise(o, a, b) ==
    LET m == 2 ^ IntBits
        r == Bitwise(o, a % m, b % m, IntBits)
    IN IF r >= m \div 2 THEN r - m ELSE r

\* runtime.rs:98-112
zero_extend(v, max) == [i \in 1..max |-> IF i <= Len(v) THEN v[i] ELSE 0]

max_len(a, b) == IF Len(a) < Len(b) THEN Len(b) ELSE Len(a)

StrBitwise(o, a, b) ==
    LET max == max_len(a, b)
        xa == zero_extend(a, max)
        xb == zero_extend(b, max)
    IN [i \in 1..max |-> Bitwise(o, xa[i], xb[i], 8)]

NumBitwise(o, a, b) ==
    IF IsInt(a) /\ IsInt(b) THEN Number(IntBitwise(o, a.n, b.n)) ELSE Inexact

bin_and(a, b) ==
    CASE a.t = "Number" /\ b.t = "Number" -> Ok(NumBitwise("And", a, b))
      [] a.t = "Str" /\ b.t = "Str" -> Ok(Str(StrBitwise("And", a.s, b.s)))
      [] a.t = "Bool" /\ b.t = "Bool" -> Ok(Bool(a.b /\ b.b))
      [] OTHER -> Err("InvalidOperand")

bin_or(a, b) ==
    CASE a.t = "Number" /\ b.t = "Number" -> Ok(NumBitwise("Or", a, b))
      [] a.t = "Str" /\ b.t = "Str" -> Ok(Str(StrBitwise("Or", a.s, b.s)))
      [] a.t = "Bool" /\ b.t = "Bool" -> Ok(Bool(a.b \/ b.b))
      [] OTHER -> Err("InvalidOperand")

bin_xor(a, b) ==
    CASE a.t = "Number" /\ b.t = "Number" -> Ok(NumBitwise("Xor", a, b))
      [] a.t = "Str" /\ b.t = "Str" -> Ok(Str(StrBitwise("Xor", a.s, b.s)))
      [] a.t = "Bool" /\ b.t = "Bool" -> Ok(Bool(a.b # b.b))
      [] OTHER -> Err("InvalidOperand")

\* a comparison that orders two byte strings by length
gtr_strings(a, b) ==
    CASE a.t = "Number" /\ b.t = "Number" -> Ok(Bool(IsInt(a) /\ IsInt(b) /\ a.n > b.n))
      [] a.t = "Str" /\ b.t = "Str" -> Ok(Bool(Len(a.s) > Len(b.s)))
      [] OTHER -> Err("InvalidOperand")

gtr(a, b) ==
    IF a.t = "Number" /\ b.t = "Number"
    THEN Ok(Bool(IsInt(a) /\ IsInt(b) /\ a.n > b.n))
    ELSE Err("InvalidOperand")

lss(a, b) ==
    IF a.t = "Number" /\ b.t = "Number"
    THEN Ok(Bool(IsInt(a) /\ IsInt(b) /\ a.n < b.n))
    ELSE Err("InvalidOperand")

eql(a, b) == Ok(Bool(Val_eq(a, b)))

\* vm.rs:135-200: the helper each binary opcode calls
runtime_bin(o, a, b) ==
    CASE o = "Add" -> add(a, b)
      [] o = "Sub" -> sub(a, b)
      [] o = "Mul" -> mul(a, b)
      [] o = "Div" -> div(a, b)
      [] o = "Mod" -> modulus(a, b)
      [] o = "And" -> bin_and(a, b)
      [] o = "Or" -> bin_or(a, b)
      [] o = "Xor" -> bin_xor(a, b)
      [] o = "Gtr" -> gtr(a, b)
      [] o = "Lss" -> lss(a, b)
      [] o = "Eql" -> eql(a, b)

(***************************************************************************)
(* Builtins (runtime.rs:249-305).  comps is the composite store, read by   *)
(* len.  The result of out carries the bytes written to standard output.   *)
(***************************************************************************)
\* (n as u8) as char, to_string().as_bytes(): the cast saturates, and a
\* char above 0x7F is encoded in two bytes
char_bytes(n) ==
    LET c == IF n < 0 THEN 0 ELSE IF n > 255 THEN 255 ELSE n
    IN IF c < 128 THEN <<c>> ELSE <<192 + (c \div 64), 128 + (c % 64)>>

builtin_out(args) ==
    IF Len(args) < 1 THEN Err("NotEnoughArguments")
    ELSE IF args[1].t = "Str" THEN Ok(args[1])
    ELSE Err("InvalidArguments")

builtin_char(args) ==
    IF Len(args) < 1 THEN Err("NotEnoughArguments")
    ELSE IF args[1].t = "Number"
    THEN Ok(Str(char_bytes(IF IsInt(args[1]) THEN args[1].n ELSE 0)))
    ELSE Err("InvalidArguments")

builtin_string(args) ==
    IF Len(args) < 1 THEN Err("NotEnoughArguments")
    ELSE IF args[1].t = "Str" THEN Ok(args[1])
    ELSE IF to_ink_string(args[1]).ok THEN Ok(Str(to_ink_string(args[1]).s))
    ELSE Err(PanicErr)

builtin_len(args, store) ==
    IF Len(args) < 1 THEN Err("NotEnoughArguments")
    ELSE CASE args[1].t = "Str" -> Ok(Number(Len(args[1].s)))
           [] args[1].t = "Comp" -> Ok(Number(Cardinality(DOMAIN At(store, args[1].id))))
           [] OTHER -> Err("InvalidArguments")

call_native(f, args, store) ==
    CASE f = "out" -> builtin_out(args)
      [] f = "char" -> builtin_char(args)
      [] f = "string" -> builtin_string(args)
      [] f = "len" -> builtin_len(args, store)

(***************************************************************************)
(* Virtual machine (vm.rs)                                                 *)
(***************************************************************************)
VARIABLES
    ast,      \* the program's AST, the input of the pipeline
    rev,      \* the iteration order of the compiler's hash maps
    prog,     \* Vm.prog: the compiled blocks
    heap,     \* Vm.heap
    stack,    \* Vm.stack, innermost frame last
    comps,    \* the composites allocated by MAKE_COMP, by reference id
    stdout,   \* the bytes written by the builtin out
    status,   \* "running", "done", "error", "panic", "exit2", "compile_error"
    result,   \* the value run returns with Ok
    error,    \* the error run returns with Err, or the compile error
    kept      \* ghost: the run of a dispatch loop that pushes every callee
              \* above its caller, in lockstep with the run of vm.rs

vars == <<ast, rev, prog, heap, stack, comps, stdout, status, result, error, kept>>

\* vm.rs:12 (10000 in the source, scaled down to keep the stack small)
MAX_STACK_FRAMES == 8

\* vm.rs:24-32.  A frame refers to its block by index: the block is a clone
\* of p[k], which never changes.
Frame_new(rp, k, p) ==
    [ip |-> 0, rp |-> rp,
     regs |-> Repeat(Empty, At(p, k).slots),
     binds |-> Repeat(Empty, Len(At(p, k).binds)),
     block |-> k]

NoFrame == [ip |-> -1]

\* vm.rs:61-66
or_from_heap(v, h) == IF v.t = "Escaped" THEN At(h, v.i) ELSE v

Top == stack[Len(stack)]

CurBlock == At(prog, Top.block)

CurInst == At(CurBlock.code, Top.ip)

\* a loop that goes on to the next instruction whatever the stack depth
Running_unguarded == status = "running" /\ Len(stack) > 0

\* vm.rs:85-87, 105-112: the loop runs an instruction while the stack is
\* non-empty and below the limit
Running == status = "running" /\ Len(stack) > 0 /\ Len(stack) # MAX_STACK_FRAMES

\* the effect of one opcode handler on the innermost frame f: its registers,
\* the heap, the composite store, the callee frame it queued (or NoFrame),
\* its instruction pointer before the final increment, the bytes it wrote
\* and the error it returned (PanicErr for a Rust panic)
Effect(regs, h, store, callee, ip) ==
    [regs |-> regs, heap |-> h, comps |-> store, callee |-> callee, ip |-> ip,
     out |-> <<>>, err |-> NoErr]

Same(f) == Effect(f.regs, heap, comps, NoFrame, f.ip)

Fail(f, e) == [Same(f) EXCEPT !.err = e]

SetReg(f, dest, v) ==
    IF ~InRange(f.regs, dest) THEN Fail(f, PanicErr)
    ELSE [Same(f) EXCEPT !.regs = SetAt(f.regs, dest, v)]

RegsOk(f, rs) == \A r \in rs : InRange(f.regs, r)

\* an operand read that takes the register's content as it is
Rd_unresolved(f, r) == At(f.regs, r)

\* vm.rs: frame.regs[r].or_from_heap(&self.heap), the read of an operand
Rd(f, r) == or_from_heap(At(f.regs, r), heap)

SeqRange(seq) == {seq[i] : i \in 1..Len(seq)}

\* a MOV that overwrites the destination register even when it holds Escaped
exec_mov_overwrite(f, dest, reg) ==
    IF ~RegsOk(f, {dest, reg}) THEN Fail(f, PanicErr)
    ELSE SetReg(f, dest, Rd(f, reg))

\* a MOV that moves the source register's content without resolving it
exec_mov_unresolved(f, dest, reg) ==
    IF ~RegsOk(f, {dest, reg}) THEN Fail(f, PanicErr)
    ELSE IF At(f.regs, dest).t = "Escaped"
    THEN [Same(f) EXCEPT !.heap = SetAt(heap, At(f.regs, dest).i, At(f.regs, reg))]
    ELSE SetReg(f, dest, At(f.regs, reg))

\* vm.rs:121-131
exec_mov(f, dest, reg) ==
    IF ~RegsOk(f, {dest, reg}) THEN Fail(f, PanicErr)
    ELSE IF At(f.regs, dest).t = "Escaped"
    THEN IF ~InRange(heap, At(f.regs, dest).i) THEN Fail(f, PanicErr)
         ELSE [Same(f) EXCEPT !.heap = SetAt(heap, At(f.regs, dest).i, Rd(f, reg))]
    ELSE SetReg(f, dest, Rd(f, reg))

\* vm.rs:132-134
exec_neg(f, dest, reg) ==
    IF ~RegsOk(f, {reg}) THEN Fail(f, PanicErr)
    ELSE LET r == neg(Rd(f, reg))
         IN IF r.err # NoErr THEN Fail(f, r.err) ELSE SetReg(f, dest, r.v)

\* a binary opcode that answers Null where the helper fails
exec_bin_lenient(f, dest, o, a, b) ==
    IF ~RegsOk(f, {a, b}) THEN Fail(f, PanicErr)
    ELSE LET r == runtime_bin(o, Rd(f, a), Rd(f, b))
         IN IF r.err # NoErr THEN SetReg(f, dest, Null) ELSE SetReg(f, dest, r.v)

\* vm.rs:135-200
exec_bin(f, dest, o, a, b) ==
    IF ~RegsOk(f, {a, b}) THEN Fail(f, PanicErr)
    ELSE LET r == runtime_bin(o, Rd(f, a), Rd(f, b))
         IN IF r.err # NoErr THEN Fail(f, r.err) ELSE SetReg(f, dest, r.v)

\* an ESCAPE that reuses the newest heap slot instead of allocating one
exec_escape_reuse(f, dest, reg) ==
    IF ~RegsOk(f, {reg}) THEN Fail(f, PanicErr)
    ELSE IF At(f.regs, reg).t = "Escaped" THEN Same(f)
    ELSE IF ~RegsOk(f, {dest}) THEN Fail(f, PanicErr)
    ELSE IF Len(heap) = 0
    THEN [Same(f) EXCEPT !.regs = SetAt(f.regs, dest, Escaped(0)),
                         !.heap = <<At(f.regs, dest)>>]
    ELSE [Same(f) EXCEPT !.regs = SetAt(f.regs, dest, Escaped(Len(heap) - 1)),
                         !.heap = SetAt(heap, Len(heap) - 1, At(f.regs, dest))]

\* an ESCAPE that allocates a slot even when the register already holds Escaped
exec_escape_always(f, dest, reg) ==
    IF ~RegsOk(f, {dest, reg}) THEN Fail(f, PanicErr)
    ELSE [Same(f) EXCEPT !.regs = SetAt(f.regs, dest, Escaped(Len(heap))),
                         !.heap = Append(heap, At(f.regs, dest))]

\* vm.rs:201-212
exec_escape(f, dest, reg) ==
    IF ~RegsOk(f, {reg}) THEN Fail(f, PanicErr)
    ELSE IF At(f.regs, reg).t = "Escaped" THEN Same(f)
    ELSE IF ~RegsOk(f, {dest}) THEN Fail(f, PanicErr)
    ELSE [Same(f) EXCEPT !.regs = SetAt(f.regs, dest, Escaped(Len(heap))),
                         !.heap = Append(heap, At(f.regs, dest))]

\* a callee frame that takes the argument registers as they are
callee_frame_unresolved(f, dest, k, heap_vals, arg_regs) ==
    LET fresh == Frame_new(dest, k, prog)
    IN [fresh EXCEPT
           !.regs = [i \in 1..Len(fresh.regs) |->
                        IF i <= Len(arg_regs) THEN At(f.regs, arg_regs[i]) ELSE fresh.regs[i]],
           !.binds = [i \in 1..Len(fresh.binds) |->
                        IF i <= Len(heap_vals) THEN heap_vals[i] ELSE fresh.binds[i]]]

\* vm.rs:218-227 and 273-277: the callee frame of a closure call
callee_frame_of(f, dest, k, heap_vals, arg_regs) ==
    LET fresh == Frame_new(dest, k, prog)
    IN [fresh EXCEPT
           !.regs = [i \in 1..Len(fresh.regs) |->
                        IF i <= Len(arg_regs) THEN Rd(f, arg_regs[i]) ELSE fresh.regs[i]],
           !.binds = [i \in 1..Len(fresh.binds) |->
                        IF i <= Len(heap_vals) THEN heap_vals[i] ELSE fresh.binds[i]]]

\* the panics of the two copy loops: an index past the callee's registers or bindings
callee_fits(k, heap_vals, arg_regs) ==
    /\ InRange(prog, k)
    /\ Len(arg_regs) <= At(prog, k).slots
    /\ Len(heap_vals) <= Len(At(prog, k).binds)

ArgVals(f, arg_regs) == [i \in 1..Len(arg_regs) |-> Rd(f, arg_regs[i])]

\* vm.rs:213-244
exec_call(f, dest, f_reg, arg_regs) ==
    IF ~RegsOk(f, {f_reg}) THEN Fail(f, PanicErr)
    ELSE LET callee_fn == Rd(f, f_reg)
         IN CASE callee_fn.t = "Func" ->
                   IF ~RegsOk(f, SeqRange(arg_regs))
                      \/ ~callee_fits(callee_fn.k, callee_fn.captured, arg_regs)
                   THEN Fail(f, PanicErr)
                   ELSE [Same(f) EXCEPT !.callee = callee_frame_of(f, dest, callee_fn.k,
                                                       callee_fn.captured, arg_regs)]
              [] callee_fn.t = "NativeFunc" ->
                   IF ~RegsOk(f, SeqRange(arg_regs)) THEN Fail(f, PanicErr)
                   ELSE LET r == call_native(callee_fn.f, ArgVals(f, arg_regs), comps)
                        IN IF r.err # NoErr THEN Fail(f, r.err)
                           ELSE [SetReg(f, dest, r.v) EXCEPT
                                    !.out = IF callee_fn.f = "out" THEN r.v.s ELSE <<>>]
              [] OTHER -> Fail(f, "InvalidFunctionCall")

\* vm.rs:245
exec_loadesc(f, dest, idx) ==
    IF ~InRange(f.binds, idx) THEN Fail(f, PanicErr)
    ELSE SetReg(f, dest, At(f.binds, idx))

\* a LOAD_CONST that stores the constant's template without capturing
exec_loadconst_template(f, dest, idx) ==
    SetReg(f, dest, At(At(prog, f.block).consts, idx))

\* a LOAD_CONST that captures the register values resolved through the heap
exec_loadconst_resolved(f, dest, idx) ==
    LET const_val == At(At(prog, f.block).consts, idx)
    IN IF const_val.t = "Func"
       THEN IF ~InRange(prog, const_val.k) THEN Fail(f, PanicErr)
            ELSE IF ~RegsOk(f, SeqRange(At(prog, const_val.k).binds)) THEN Fail(f, PanicErr)
            ELSE SetReg(f, dest,
                     Func(const_val.k,
                          [i \in 1..Len(At(prog, const_val.k).binds) |->
                              Rd(f, At(prog, const_val.k).binds[i])]))
       ELSE SetReg(f, dest, const_val)

\* vm.rs:246-264
exec_loadconst(f, dest, idx) ==
    LET const_val == At(At(prog, f.block).consts, idx)
    IN IF const_val.t = "Func"
       THEN IF ~InRange(prog, const_val.k) THEN Fail(f, PanicErr)
            ELSE LET callee_block == At(prog, const_val.k)
                 IN IF Len(callee_block.binds) > 0
                    THEN IF ~RegsOk(f, SeqRange(callee_block.binds)) THEN Fail(f, PanicErr)
                         ELSE SetReg(f, dest,
                                  Func(const_val.k,
                                       const_val.captured \o
                                       [i \in 1..Len(callee_block.binds) |->
                                           At(f.regs, callee_block.binds[i])]))
                    ELSE SetReg(f, dest, Func(const_val.k, <<>>))
       ELSE SetReg(f, dest, const_val)

\* vm.rs:292-299: the instruction pointer after skipping to the skip-th next
\* CALL_IF_EQ of the block; -1 is the panic of indexing past the code
RECURSIVE skip_branches(_, _, _)
skip_branches(code, ip, skip) ==
    IF skip = 0 THEN ip
    ELSE IF ip + 1 >= Len(code) THEN -1
    ELSE IF At(code, ip + 1).op.o = "CallIfEq" THEN skip_branches(code, ip + 1, skip - 1)
    ELSE skip_branches(code, ip + 1, skip)

\* vm.rs:265-301
exec_callifeq(f, dest, f_reg, a_reg, b_reg, skip) ==
    IF ~RegsOk(f, {a_reg, b_reg}) THEN Fail(f, PanicErr)
    ELSE IF ~Val_eq(Rd(f, a_reg), Rd(f, b_reg)) THEN Same(f)
    ELSE IF ~RegsOk(f, {f_reg}) THEN Fail(f, PanicErr)
    ELSE LET callee_fn == Rd(f, f_reg)
             ip == skip_branches(At(prog, f.block).code, f.ip, skip)
         IN IF callee_fn.t # "Func" THEN Fail(f, "InvalidFunctionCall")
            ELSE IF ~callee_fits(callee_fn.k, callee_fn.captured, <<>>) \/ ip < 0
            THEN Fail(f, PanicErr)
            ELSE [Same(f) EXCEPT !.callee = callee_frame_of(f, dest, callee_fn.k,
                                                callee_fn.captured, <<>>),
                                 !.ip = ip]

\* comp.rs:10-14, vm.rs:302
Comp_new == [key \in {} |-> Empty]

exec_makecomp(f, dest) ==
    [SetReg(f, dest, Comp(Len(comps))) EXCEPT !.comps = Append(comps, Comp_new)]

\* a set that keeps the value already stored under the key
Comp_set_keep(map, key, val) == map @@ (to_ink_string(key).s :> val)

\* a set that stores under the key's kind and rendering
Comp_set_typed(map, key, val) == ((<<Len(key.t)>> \o to_ink_string(key).s) :> val) @@ map

\* comp.rs:17-19
Comp_set(map, key, val) == (to_ink_string(key).s :> val) @@ map

\* comp.rs:21-26
Comp_get(map, key) ==
    IF to_ink_string(key).s \in DOMAIN map THEN map[to_ink_string(key).s] ELSE Null

\* a SET_COMP that writes into a private copy of the map, as a composite
\* held by value would
exec_setcomp_copy(f, comp_reg, key_reg, val_reg) ==
    IF ~RegsOk(f, {comp_reg, key_reg, val_reg}) THEN Fail(f, PanicErr)
    ELSE IF Rd(f, comp_reg).t # "Comp" \/ ~to_ink_string(Rd(f, key_reg)).ok
            \/ At(f.regs, comp_reg).t = "Escaped"
    THEN Fail(f, "ExpectedCompositeValue")
    ELSE [SetReg(f, comp_reg, Comp(Len(comps))) EXCEPT
             !.comps = Append(comps, Comp_set(At(comps, Rd(f, comp_reg).id),
                                              Rd(f, key_reg), Rd(f, val_reg)))]

\* vm.rs:303-315
exec_setcomp(f, comp_reg, key_reg, val_reg) ==
    IF ~RegsOk(f, {comp_reg, key_reg, val_reg}) THEN Fail(f, PanicErr)
    ELSE LET key == Rd(f, key_reg)
             val == Rd(f, val_reg)
             comp_val == Rd(f, comp_reg)
         IN CASE comp_val.t = "Comp" ->
                   IF ~to_ink_string(key).ok THEN Fail(f, PanicErr)
                   ELSE [Same(f) EXCEPT !.comps =
                            SetAt(comps, comp_val.id,
                                  Comp_set(At(comps, comp_val.id), key, val))]
              [] comp_val.t = "Str" ->
                   LET r == set_on_bytestring(comp_val.s, key, val)
                   IN IF r.err # NoErr THEN Fail(f, r.err)
                      ELSE IF At(f.regs, comp_reg).t = "Escaped"
                      THEN [Same(f) EXCEPT !.heap =
                               SetAt(heap, At(f.regs, comp_reg).i, r.v)]
                      ELSE SetReg(f, comp_reg, r.v)
              [] OTHER -> Fail(f, "ExpectedCompositeValue")

\* vm.rs:316-328
exec_getcomp(f, dest, comp_reg, key_reg) ==
    IF ~RegsOk(f, {comp_reg, key_reg}) THEN Fail(f, PanicErr)
    ELSE LET comp == Rd(f, comp_reg)
             key == Rd(f, key_reg)
         IN CASE comp.t = "Comp" ->
                   IF ~to_ink_string(key).ok THEN Fail(f, PanicErr)
                   ELSE SetReg(f, dest, Comp_get(At(comps, comp.id), key))
              [] comp.t = "Str" ->
                   LET r == get_from_bytestring(comp.s, key)
                   IN IF r.err # NoErr THEN Fail(f, r.err) ELSE SetReg(f, dest, r.v)
              [] OTHER -> Fail(f, "ExpectedCompositeValue")

\* a test that finds a frame at its end only once it is past it
should_pop_frame_past(stk) ==
    /\ Len(stk) > 0
    /\ stk[Len(stk)].ip > Len(At(prog, stk[Len(stk)].block).code)

\* vm.rs:89-96
should_pop_frame(stk) ==
    /\ Len(stk) > 0
    /\ stk[Len(stk)].ip = Len(At(prog, stk[Len(stk)].block).code)

Outcome(stk, st, res) == [stack |-> stk, status |-> st, result |-> res]

\* a push that keeps every frame beneath the callee
push_callee_keep(stk, callee_frame) == Outcome(Append(stk, callee_frame), "running", Empty)

\* a replacement that leaves the callee the return register of its call
RECURSIVE push_callee_own_rp(_, _)
push_callee_own_rp(stk, callee_frame) ==
    IF should_pop_frame(stk)
    THEN push_callee_own_rp(SubSeq(stk, 1, Len(stk) - 1), callee_frame)
    ELSE Outcome(Append(stk, callee_frame), "running", Empty)

\* vm.rs:334-341: frames at their end are popped and the callee inherits
\* the return register of the last one popped
RECURSIVE push_callee(_, _)
push_callee(stk, callee_frame) ==
    IF should_pop_frame(stk)
    THEN push_callee(SubSeq(stk, 1, Len(stk) - 1),
                     [callee_frame EXCEPT !.rp = stk[Len(stk)].rp])
    ELSE Outcome(Append(stk, callee_frame), "running", Empty)

\* vm.rs:342-357
RECURSIVE return_frames(_, _)
return_frames(stk, h) ==
    IF ~should_pop_frame(stk) THEN Outcome(stk, "running", Empty)
    ELSE LET top_frame == stk[Len(stk)]
             rp == top_frame.rp
             code == At(prog, top_frame.block).code
             ret_reg == code[Len(code)].dest
             rest == SubSeq(stk, 1, Len(stk) - 1)
         IN IF ~InRange(top_frame.regs, ret_reg) THEN Outcome(stk, "panic", Empty)
            ELSE LET ret_val == At(top_frame.regs, ret_reg)
                 IN IF Len(rest) = 0 THEN Outcome(rest, "done", or_from_heap(ret_val, h))
                    ELSE IF ~InRange(rest[Len(rest)].regs, rp)
                    THEN Outcome(rest, "panic", Empty)
                    ELSE return_frames(
                             [rest EXCEPT ![Len(rest)].regs = SetAt(@, rp, ret_val)], h)

\* The ghost run's counterpart of one loop iteration with effect x: the stack
\* limit of vm.rs:109-112 on its own stack, a callee pushed above its caller
\* whether or not the caller is at its end, and the returns of vm.rs:342-357.
kept_commit(x) ==
    IF kept.status # "running" THEN kept
    ELSE IF Len(kept.stack) = MAX_STACK_FRAMES THEN [kept EXCEPT !.status = "exit2"]
    ELSE IF x.err # NoErr
    THEN [kept EXCEPT !.status = IF x.err = PanicErr THEN "panic" ELSE "error"]
    ELSE IF x.callee # NoFrame
    THEN push_callee_keep([kept.stack EXCEPT ![Len(kept.stack)].regs = x.regs,
                                             ![Len(kept.stack)].ip = x.ip + 1],
                          x.callee)
    ELSE return_frames([kept.stack EXCEPT ![Len(kept.stack)].regs = x.regs,
                                          ![Len(kept.stack)].ip = x.ip + 1],
                       x.heap)

\* vm.rs:331-358: the end of a loop iteration, after a handler with effect x
Commit(x) ==
    IF x.err # NoErr
    THEN /\ status' = IF x.err = PanicErr THEN "panic" ELSE "error"
         /\ error' = x.err
         /\ kept' = kept_commit(x)
         /\ UNCHANGED <<ast, rev, prog, heap, stack, comps, stdout, result>>
    ELSE LET stack1 == [stack EXCEPT ![Len(stack)].regs = x.regs,
                                     ![Len(stack)].ip = x.ip + 1]
             fin == IF x.callee # NoFrame THEN push_callee(stack1, x.callee)
                    ELSE return_frames(stack1, x.heap)
         IN /\ stack' = fin.stack
            /\ status' = fin.status
            /\ result' = fin.result
            /\ error' = IF fin.status = "panic" THEN PanicErr ELSE error
            /\ heap' = x.heap
            /\ comps' = x.comps
            /\ stdout' = stdout \o x.out
            /\ kept' = kept_commit(x)
            /\ UNCHANGED <<ast, rev, prog>>

Nop ==
    /\ Running
    /\ CurInst.op.o = "Nop"
    /\ Commit(Same(Top))

Mov ==
    /\ Running
    /\ CurInst.op.o = "Mov"
    /\ Commit(exec_mov(Top, CurInst.dest, CurInst.op.r))

NegOp ==
    /\ Running
    /\ CurInst.op.o = "Neg"
    /\ Commit(exec_neg(Top, CurInst.dest, CurInst.op.r))

BinOp ==
    /\ Running
    /\ CurInst.op.o \in BinOps
    /\ Commit(exec_bin(Top, CurInst.dest, CurInst.op.o, CurInst.op.a, CurInst.op.b))

Escape ==
    /\ Running
    /\ CurInst.op.o = "Escape"
    /\ Commit(exec_escape(Top, CurInst.dest, CurInst.op.r))

Call ==
    /\ Running
    /\ CurInst.op.o = "Call"
    /\ Commit(exec_call(Top, CurInst.dest, CurInst.op.f, CurInst.op.args))

LoadEsc ==
    /\ Running
    /\ CurInst.op.o = "LoadEsc"
    /\ Commit(exec_loadesc(Top, CurInst.dest, CurInst.op.i))

LoadConst ==
    /\ Running
    /\ CurInst.op.o = "LoadConst"
    /\ Commit(exec_loadconst(Top, CurInst.dest, CurInst.op.i))

CallIfEq ==
    /\ Running
    /\ CurInst.op.o = "CallIfEq"
    /\ Commit(exec_callifeq(Top, CurInst.dest, CurInst.op.f, CurInst.op.a,
                            CurInst.op.b, CurInst.op.skip))

MakeComp ==
    /\ Running
    /\ CurInst.op.o = "MakeComp"
    /\ Commit(exec_makecomp(Top, CurInst.dest))

SetComp ==
    /\ Running
    /\ CurInst.op.o = "SetComp"
    /\ Commit(exec_setcomp(Top, CurInst.op.c, CurInst.op.key, CurInst.op.v))

GetComp ==
    /\ Running
    /\ CurInst.op.o = "GetComp"
    /\ Commit(exec_getcomp(Top, CurInst.dest, CurInst.op.c, CurInst.op.key))

\* vm.rs:108-112
StackLimit ==
    /\ status = "running"
    /\ Len(stack) = MAX_STACK_FRAMES
    /\ status' = "exit2"
    /\ kept' = IF kept.status = "running" THEN [kept EXCEPT !.status = "exit2"] ELSE kept
    /\ UNCHANGED <<ast, rev, prog, heap, stack, comps, stdout, result, error>>

Next ==
    \/ Nop
    \/ Mov
    \/ NegOp
    \/ BinOp
    \/ Escape
    \/ Call
    \/ LoadEsc
    \/ LoadConst
    \/ CallIfEq
    \/ MakeComp
    \/ SetComp
    \/ GetComp
    \/ StackLimit

(***************************************************************************)
(* Input programs.  Each is the AST the parser (parse.rs) gives for the    *)
(* source text quoted above it.                                            *)
(***************************************************************************)
Call0(name) == FnCall(Ident(name), <<>>)

Call1(name, arg) == FnCall(Ident(name), <<arg>>)

Def(name, node) == Define(Ident(name), node)

Fn0(body) == FnLiteral(<<>>, body)

Fn1(param, body) == FnLiteral(<<Ident(param)>>, body)

Out(bytes) == Call1("out", StringLiteral(bytes))

\* the literals programs are built from, and the value of a literal
Lits == {NumberLiteral(1), NumberLiteral(2), StringLiteral(<<97>>)}

ValOf(lit) ==
    CASE lit.k = "NumberLiteral" -> Number(lit.n)
      [] lit.k = "StringLiteral" -> Str(lit.s)
      [] lit.k = "BooleanLiteral" -> Bool(lit.b)

\* out('hello')
Scenario1 == <<Out(<<104, 101, 108, 108, 111>>)>>

\* x := 3, y := 4, out(string(x + y * 2))
Scenario2 ==
    <<Def("x", NumberLiteral(3)),
      Def("y", NumberLiteral(4)),
      Call1("out", Call1("string",
          BinaryExpr("AddOp", Ident("x"),
                     BinaryExpr("MulOp", Ident("y"), NumberLiteral(2)))))>>

\* make := n => () => n, f := make(42), out(string(f()))
Scenario3 ==
    <<Def("make", Fn1("n", Fn0(Ident("n")))),
      Def("f", Call1("make", NumberLiteral(42))),
      Call1("out", Call1("string", Call0("f")))>>

\* cnt := 0, inc := () => cnt := cnt + 1, inc(), inc(), inc(), out(string(cnt))
Scenario4 ==
    <<Def("cnt", NumberLiteral(0)),
      Def("inc", Fn0(Def("cnt", BinaryExpr("AddOp", Ident("cnt"), NumberLiteral(1))))),
      Call0("inc"), Call0("inc"), Call0("inc"),
      Call1("out", Call1("string", Ident("cnt")))>>

\* x := 2, out(x :: {1 -> 'one', 2 -> 'two', _ -> 'other'})
Scenario5 ==
    <<Def("x", NumberLiteral(2)),
      Call1("out", MatchExpr(Ident("x"),
          <<MatchClause(NumberLiteral(1), StringLiteral(<<111, 110, 101>>)),
            MatchClause(NumberLiteral(2), StringLiteral(<<116, 119, 111>>)),
            MatchClause(EmptyIdent, StringLiteral(<<111, 116, 104, 101, 114>>))>>))>>

\* x := [10, 20, 30], out(string(x.1 + len(x)))
Scenario6 ==
    <<Def("x", ListLiteral(<<NumberLiteral(10), NumberLiteral(20), NumberLiteral(30)>>)),
      Call1("out", Call1("string",
          BinaryExpr("AddOp", Access(Ident("x"), NumberLiteral(1)),
                     Call1("len", Ident("x")))))>>

Scenarios == {Scenario1, Scenario2, Scenario3, Scenario4, Scenario5, Scenario6}

\* n := v1, f := () => n, g := () => n, n := v2, x := [f(), g()]
MovVisible(v1, v2) ==
    <<Def("n", v1),
      Def("f", Fn0(Ident("n"))),
      Def("g", Fn0(Ident("n"))),
      Def("n", v2),
      Def("x", ListLiteral(<<Call0("f"), Call0("g")>>))>>

\* n := v1, f := () => () => n, n := v2, x := f()()
MovVisibleNested(v1, v2) ==
    <<Def("n", v1),
      Def("f", Fn0(Fn0(Ident("n")))),
      Def("n", v2),
      Def("x", FnCall(Call0("f"), <<>>))>>

\* h := () => (n := v1, f := () => n, n := v2, f()), x := h()
MovVisibleInFn(v1, v2) ==
    <<Def("h", Fn0(ExprList(<<Def("n", v1),
                              Def("f", Fn0(Ident("n"))),
                              Def("n", v2),
                              Call0("f")>>))),
      Def("x", Call0("h"))>>

\* make := n => () => n, f := make(v1), g := make(v2), x := [f(), g()]
MakeTwice(v1, v2) ==
    <<Def("make", Fn1("n", Fn0(Ident("n")))),
      Def("f", Call1("make", v1)),
      Def("g", Call1("make", v2)),
      Def("x", ListLiteral(<<Call0("f"), Call0("g")>>))>>

\* a := v1, b := v2, f := () => a, g := () => b, a := b, x := f()
MovEscaped(v1, v2) ==
    <<Def("a", v1),
      Def("b", v2),
      Def("f", Fn0(Ident("a"))),
      Def("g", Fn0(Ident("b"))),
      Def("a", Ident("b")),
      Def("x", Call0("f"))>>

\* the bytes a clause body writes: out('A'), out('B'), out('C')
Mark(i) == <<64 + i>>

\* the targets of the match programs: literals, `_`, and the call out('a'),
\* whose value is 'a' and whose evaluation writes a
Targets == Lits \cup {EmptyIdent, Out(<<97>>)}

Clauses(ts) == [i \in 1..Len(ts) |-> MatchClause(ts[i], Out(Mark(i)))]

\* x := c, x :: {t1 -> out('A'), t2 -> out('B'), t3 -> out('C')}
MatchMain(c, ts) == <<Def("x", c), MatchExpr(Ident("x"), Clauses(ts))>>

\* x := c, y := (x :: {t1 -> out('A'), t2 -> out('B')}), y
MatchInList(c, ts) ==
    <<Def("x", c),
      Def("y", ExprList(<<MatchExpr(Ident("x"), Clauses(ts))>>)),
      Ident("y")>>

\* x := c, x :: {1 -> out('A'), [2 :: {2 -> 3}] -> out('B'), _ -> out('C')}
MatchNested(c) ==
    <<Def("x", c),
      MatchExpr(Ident("x"),
          <<MatchClause(NumberLiteral(1), Out(Mark(1))),
            MatchClause(ListLiteral(<<MatchExpr(NumberLiteral(2),
                            <<MatchClause(NumberLiteral(2), NumberLiteral(3))>>)>>),
                        Out(Mark(2))),
            MatchClause(EmptyIdent, Out(Mark(3)))>>)>>

\* a := 1, b := 2, x := 1, f := () => out(x := v), f()
DefineInArg(v) ==
    <<Def("a", NumberLiteral(1)),
      Def("b", NumberLiteral(2)),
      Def("x", NumberLiteral(1)),
      Def("f", Fn0(Call1("out", Def("x", v)))),
      Call0("f")>>

\* a := 1, b := 2, x := 1, f := () => (out(x := v), g := () => x), f()
DefineInArgCaptured(v) ==
    <<Def("a", NumberLiteral(1)),
      Def("b", NumberLiteral(2)),
      Def("x", NumberLiteral(1)),
      Def("f", Fn0(ExprList(<<Call1("out", Def("x", v)),
                              Def("g", Fn0(Ident("x")))>>))),
      Call0("f")>>

\* x := 1, f := () => (() => out(x := v)), f()
DefineInArgNested(v) ==
    <<Def("x", NumberLiteral(1)),
      Def("f", Fn0(Fn0(Call1("out", Def("x", v))))),
      Call0("f")>>

SetKey(name, v) == Define(Access(Ident(name), Ident("k")), v)

GetKey(name) == Access(Ident(name), Ident("k"))

\* a := {}, b := a, b.k := v, x := a.k
ShareMov(v) ==
    <<Def("a", ObjectLiteral(<<>>)), Def("b", Ident("a")), SetKey("b", v),
      Def("x", GetKey("a"))>>

\* a := {}, b := a, a.k := v, x := b.k
ShareMovRev(v) ==
    <<Def("a", ObjectLiteral(<<>>)), Def("b", Ident("a")), SetKey("a", v),
      Def("x", GetKey("b"))>>

\* a := {}, f := c => c.k := v, f(a), x := a.k
ShareArg(v) ==
    <<Def("a", ObjectLiteral(<<>>)), Def("f", Fn1("c", SetKey("c", v))),
      Call1("f", Ident("a")), Def("x", GetKey("a"))>>

\* a := {}, f := c => c, b := f(a), b.k := v, x := a.k
ShareRet(v) ==
    <<Def("a", ObjectLiteral(<<>>)), Def("f", Fn1("c", Ident("c"))),
      Def("b", Call1("f", Ident("a"))), SetKey("b", v), Def("x", GetKey("a"))>>

\* a := {}, f := () => a.k := v, f(), x := a.k
ShareCapture(v) ==
    <<Def("a", ObjectLiteral(<<>>)), Def("f", Fn0(SetKey("a", v))),
      Call0("f"), Def("x", GetKey("a"))>>

\* a := {}, f := () => a.k, a.k := v, x := f()
ShareCaptureRev(v) ==
    <<Def("a", ObjectLiteral(<<>>)), Def("f", Fn0(GetKey("a"))),
      SetKey("a", v), Def("x", Call0("f"))>>

\* x := ~v
Negate(v) == <<Def("x", UnaryExpr(v))>>

\* f := n => 1 + f(n), f(1)
Recurse ==
    <<Def("f", Fn1("n", BinaryExpr("AddOp", NumberLiteral(1), Call1("f", Ident("n"))))),
      Call1("f", NumberLiteral(1))>>

\* f := () => f(), f()
TailLoop == <<Def("f", Fn0(Call0("f"))), Call0("f")>>

\* the keys of the composite programs: 1, '1' (rendered alike) and 'a'
Keys == {NumberLiteral(1), StringLiteral(<<49>>), StringLiteral(<<97>>)}

\* c := {}, c.(k1) := 'b', c.(k2) := v, x := [c.(k2), c.(k1), c.('b')]
RoundTrip(k1, k2, v) ==
    <<Def("c", ObjectLiteral(<<>>)),
      Define(Access(Ident("c"), k1), StringLiteral(<<98>>)),
      Define(Access(Ident("c"), k2), v),
      Def("x", ListLiteral(<<Access(Ident("c"), k2), Access(Ident("c"), k1),
                             Access(Ident("c"), StringLiteral(<<98>>))>>))>>

\* y := v, f := () => y, c := {}, c.(k) := y, c.(k)
RoundTripEscaped(k, v) ==
    <<Def("y", v),
      Def("f", Fn0(Ident("y"))),
      Def("c", ObjectLiteral(<<>>)),
      Define(Access(Ident("c"), k), Ident("y")),
      Access(Ident("c"), k)>>

\* the operands of the equality programs: 1, 2, 'a', true, {}.a (Null), {},
\* [1], [2], () => 1 and the builtin out
EqOperands ==
    {NumberLiteral(1), NumberLiteral(2), StringLiteral(<<97>>), BooleanLiteral(TRUE),
     Access(ObjectLiteral(<<>>), Ident("a")),
     ObjectLiteral(<<>>), ListLiteral(<<NumberLiteral(1)>>), ListLiteral(<<NumberLiteral(2)>>),
     Fn0(NumberLiteral(1)), Ident("out")}

\* x := (l = r)
EqProgram(l, r) == <<Def("x", BinaryExpr("EqOp", l, r))>>

\* the expressions that fail at runtime and the error each one gives:
\* ~'a', 1 - 'a', 1(), 1.k, 'a'.(true), 'a'.0 := 1, out(1), 1.k := 1
Failing ==
    {<<UnaryExpr(StringLiteral(<<97>>)), "InvalidOperand">>,
     <<BinaryExpr("SubOp", NumberLiteral(1), StringLiteral(<<97>>)), "InvalidOperand">>,
     <<FnCall(NumberLiteral(1), <<>>), "InvalidFunctionCall">>,
     <<Access(NumberLiteral(1), Ident("k")), "ExpectedCompositeValue">>,
     <<Access(StringLiteral(<<97>>), BooleanLiteral(TRUE)), "ExpectedIntegerIndex">>,
     <<Define(Access(StringLiteral(<<97>>), NumberLiteral(0)), NumberLiteral(1)),
       "ExpectedString">>,
     <<Call1("out", NumberLiteral(1)), "InvalidArguments">>,
     <<Define(Access(NumberLiteral(1), Ident("k")), NumberLiteral(1)),
       "ExpectedCompositeValue">>}

\* out('A'), x := e, out('B')
ErrorAt(e) == <<Out(Mark(1)), Def("x", e), Out(Mark(2))>>

\* y := 1, f := () => (y, e), out('A'), f(), out('B')
ErrorInFn(e) ==
    <<Def("y", NumberLiteral(1)),
      Def("f", Fn0(ExprList(<<Ident("y"), e>>))),
      Out(Mark(1)), Call0("f"), Out(Mark(2))>>

\* out(x)
UndefinedVar == <<Call1("out", Ident("x"))>>

\* the operators and operands of the binary-operator programs: 1, 2, 'a',
\* 'bc', true, false and {}
BinToks ==
    {"AddOp", "SubOp", "MulOp", "DivOp", "ModOp", "AndOp", "OrOp", "XorOp", "GtOp", "LtOp"}

BinOperands ==
    {NumberLiteral(1), NumberLiteral(2), StringLiteral(<<97>>), StringLiteral(<<98, 99>>),
     BooleanLiteral(TRUE), BooleanLiteral(FALSE), ObjectLiteral(<<>>)}

\* x := l <tok> r
BinProgram(tok, l, r) == <<Def("x", BinaryExpr(tok, l, r))>>

\* the byte strings, index keys (with the index each coerces to) and values
\* of the byte-string programs
Strings == {<<>>, <<97, 98>>}

IndexKeys ==
    {<<NumberLiteral(i), i>> : i \in 0..3} \cup {<<StringLiteral(<<49>>), 1>>}

SetValues ==
    {StringLiteral(<<>>), StringLiteral(<<99>>), StringLiteral(<<99, 100>>), NumberLiteral(1)}

\* a := s, x := a.(key)
StrGet(s, key) == <<Def("a", StringLiteral(s)), Def("x", Access(Ident("a"), key))>>

\* a := s, a.(key) := v, a
StrSet(s, key, v) ==
    <<Def("a", StringLiteral(s)), Define(Access(Ident("a"), key), v), Ident("a")>>

\* the arguments of the char programs
CharArgs == {0, 65, 127, 128, 200, 255, 256, 300}

\* x := char(n)
CharOf(n) == <<Def("x", Call1("char", NumberLiteral(n)))>>

\* the last expressions of the return programs: 1, 1 + 2, c, [1], {k: 1}
\* and c.k := 1
LastExprs ==
    {NumberLiteral(1),
     BinaryExpr("AddOp", NumberLiteral(1), NumberLiteral(2)),
     Ident("c"),
     ListLiteral(<<NumberLiteral(1)>>),
     ObjectLiteral(<<ObjectEntry(Ident("k"), NumberLiteral(1))>>),
     SetKey("c", NumberLiteral(1))}

\* c := {}, f := () => e, x := f()
LastInFn(e) ==
    <<Def("c", ObjectLiteral(<<>>)), Def("f", Fn0(e)), Def("x", Call0("f"))>>

\* c := {}, x := (2, e)
LastInList(e) ==
    <<Def("c", ObjectLiteral(<<>>)), Def("x", ExprList(<<NumberLiteral(2), e>>))>>

\* a := () => b(), b := () => v, x := a()
ForwardRef(v) ==
    <<Def("a", Fn0(Call0("b"))), Def("b", Fn0(v)), Def("x", Call0("a"))>>

\* h := () => (a := () => b(), b := () => v, a()), x := h()
ForwardRefInFn(v) ==
    <<Def("h", Fn0(ExprList(<<Def("a", Fn0(Call0("b"))), Def("b", Fn0(v)), Call0("a")>>))),
      Def("x", Call0("h"))>>

\* x := (_ = v), x := (v = _), x := (v :: {_ -> 1}), x := (_ :: {v -> 1})
WildLeft(v) == <<Def("x", BinaryExpr("EqOp", EmptyIdent, v))>>

WildRight(v) == <<Def("x", BinaryExpr("EqOp", v, EmptyIdent))>>

WildTarget(v) ==
    <<Def("x", MatchExpr(v, <<MatchClause(EmptyIdent, NumberLiteral(1))>>))>>

WildCond(v) ==
    <<Def("x", MatchExpr(EmptyIdent, <<MatchClause(v, NumberLiteral(1))>>))>>

\* n := v, g := y => (n, y), x := g(n), x
CallShared(v) ==
    <<Def("n", v),
      Def("g", Fn1("y", ExprList(<<Ident("n"), Ident("y")>>))),
      Def("x", Call1("g", Ident("n"))),
      Ident("x")>>

\* the first parameter of a two-parameter function: a name or _
FirstParams == {Ident("y"), EmptyIdent}

\* f := (p, x) => (0, x), r := f(v1, v2), r
SecondParam(p, v1, v2) ==
    <<Def("f", FnLiteral(<<p, Ident("x")>>, ExprList(<<NumberLiteral(0), Ident("x")>>))),
      Def("n", FnCall(Ident("f"), <<v1, v2>>)),
      Ident("n")>>

\* n := ((p, x) => x)(v1, v2), n
SecondParamBare(p, v1, v2) ==
    <<Def("n", FnCall(FnLiteral(<<p, Ident("x")>>, Ident("x")), <<v1, v2>>)),
      Ident("n")>>

\* h := () => (n := v, f := () => n, n), x := h(), x
ReturnCaptured(v) ==
    <<Def("h", Fn0(ExprList(<<Def("n", v), Def("f", Fn0(Ident("n"))), Ident("n")>>))),
      Def("x", Call0("h")),
      Ident("x")>>

\* n := 1, f := () => n, x := f() + (n := 2), x
ReturnThenRebind ==
    <<Def("n", NumberLiteral(1)),
      Def("f", Fn0(Ident("n"))),
      Def("x", BinaryExpr("AddOp", Call0("f"), Def("n", NumberLiteral(2)))),
      Ident("x")>>

\* the right sides of a discard
Discarded == Lits \cup {BinaryExpr("AddOp", NumberLiteral(1), NumberLiteral(2)), Out(<<97>>)}

\* _ := e
Discard(e) == <<Define(EmptyIdent, e)>>

\* x := 1, _ := e, x
DiscardBetween(e) == <<Def("x", NumberLiteral(1)), Define(EmptyIdent, e), Ident("x")>>

\* keys that render alike in pairs: 1 and '1', true and 'true'
CanonKeys ==
    {NumberLiteral(1), StringLiteral(<<49>>),
     BooleanLiteral(TRUE), StringLiteral(<<116, 114, 117, 101>>)}

\* c := {}, c.(k1) := 'b', c.(k2) := v, x := c.(k1), x
CanonTwice(k1, k2, v) ==
    <<Def("c", ObjectLiteral(<<>>)),
      Define(Access(Ident("c"), k1), StringLiteral(<<98>>)),
      Define(Access(Ident("c"), k2), v),
      Def("x", Access(Ident("c"), k1)),
      Ident("x")>>

\* n := 1, f := () => n, c := {}, c.(f()) := n, y := ~n, out(string(n)), x := n + n, x
EscapedOperands ==
    <<Def("n", NumberLiteral(1)),
      Def("f", Fn0(Ident("n"))),
      Def("c", ObjectLiteral(<<>>)),
      Define(Access(Ident("c"), Call0("f")), Ident("n")),
      Def("y", UnaryExpr(Ident("n"))),
      Call1("out", Call1("string", Ident("n"))),
      Def("x", BinaryExpr("AddOp", Ident("n"), Ident("n"))),
      Ident("x")>>

\* the operands of the symmetry programs: 1, 'a', {}.a (Null), [1], () => 1
SymOperands ==
    {NumberLiteral(1), StringLiteral(<<97>>), Access(ObjectLiteral(<<>>), Ident("a")),
     ListLiteral(<<NumberLiteral(1)>>), Fn0(NumberLiteral(1))}

\* x := [l = r, r = l], x
SymProgram(l, r) ==
    <<Def("x", ListLiteral(<<BinaryExpr("EqOp", l, r), BinaryExpr("EqOp", r, l)>>)),
      Ident("x")>>

\* x := v, g := () => (c :: {1 -> 0, 2 -> x}, x), n := g(), n
CaptureInClause(c, v) ==
    <<Def("x", v),
      Def("g", Fn0(ExprList(<<MatchExpr(c, <<MatchClause(NumberLiteral(1), NumberLiteral(0)),
                                              MatchClause(NumberLiteral(2), Ident("x"))>>),
                              Ident("x")>>))),
      Def("n", Call0("g")),
      Ident("n")>>

\* f := n => n :: {0 -> 0, _ -> f(n - 1)}, f(k): k tail calls, each from
\* the last instruction of a clause that is itself called last
CountDown(k) ==
    <<Def("f", Fn1("n", MatchExpr(Ident("n"),
                   <<MatchClause(NumberLiteral(0), NumberLiteral(0)),
                     MatchClause(EmptyIdent,
                                 Call1("f", BinaryExpr("SubOp", Ident("n"),
                                                       NumberLiteral(1))))>>))),
      Call1("f", NumberLiteral(k))>>

\* the argument lists of the calls with spare arguments
ArgLists == {<<>>, <<NumberLiteral(1)>>, <<NumberLiteral(1), NumberLiteral(2)>>}

\* f := () => 1, x := f(args), x
SpareArgs(args) ==
    <<Def("f", Fn0(NumberLiteral(1))),
      Def("x", FnCall(Ident("f"), args)),
      Ident("x")>>

Pairs == Lits \X Lits

Triples == Targets \X Targets \X Targets

Programs ==
    Scenarios
    \cup {MovVisible(p[1], p[2]) : p \in Pairs}
    \cup {MovVisibleNested(p[1], p[2]) : p \in Pairs}
    \cup {MovVisibleInFn(p[1], p[2]) : p \in Pairs}
    \cup {MovEscaped(p[1], p[2]) : p \in Pairs}
    \cup {MakeTwice(p[1], p[2]) : p \in Pairs}
    \cup {MatchMain(c, <<t[1], t[2], t[3]>>) : c \in Lits, t \in Triples}
    \cup {MatchInList(p[1], <<p[2], t>>) : p \in Pairs, t \in Targets}
    \cup {MatchNested(c) : c \in Lits}
    \cup {DefineInArg(v) : v \in Lits}
    \cup {DefineInArgCaptured(v) : v \in Lits}
    \cup {DefineInArgNested(v) : v \in Lits}
    \cup {ShareMov(v) : v \in Lits}
    \cup {ShareMovRev(v) : v \in Lits}
    \cup {ShareArg(v) : v \in Lits}
    \cup {ShareRet(v) : v \in Lits}
    \cup {ShareCapture(v) : v \in Lits}
    \cup {ShareCaptureRev(v) : v \in Lits}
    \cup {Negate(v) : v \in Lits \cup {BooleanLiteral(TRUE)}}
    \cup {Recurse, TailLoop}
    \cup {RoundTrip(k[1], k[2], v) : k \in Keys \X Keys, v \in Lits}
    \cup {RoundTripEscaped(k, v) : k \in Keys, v \in Lits}
    \cup {EqProgram(l, r) : l \in EqOperands, r \in EqOperands}
    \cup {ErrorAt(e[1]) : e \in Failing}
    \cup {ErrorInFn(e[1]) : e \in Failing}
    \cup {UndefinedVar}
    \cup {CountDown(k) : k \in {1, 4}}
    \cup {SpareArgs(args) : args \in ArgLists}
    \cup {CaptureInClause(c, v) : c \in {NumberLiteral(1), NumberLiteral(2)}, v \in Lits}
    \cup {SymProgram(l, r) : l \in SymOperands, r \in SymOperands}
    \cup {EscapedOperands}
    \cup {CanonTwice(k1, k2, v) : k1 \in CanonKeys, k2 \in CanonKeys, v \in Lits}
    \cup {Discard(e) : e \in Discarded}
    \cup {DiscardBetween(e) : e \in Discarded}
    \cup {ReturnThenRebind}
    \cup {ReturnCaptured(v) : v \in Lits}
    \cup {SecondParam(p, q[1], q[2]) : p \in FirstParams, q \in Pairs}
    \cup {SecondParamBare(p, q[1], q[2]) : p \in FirstParams, q \in Pairs}
    \cup {CallShared(v) : v \in Lits}
    \cup {WildLeft(v) : v \in EqOperands}
    \cup {WildRight(v) : v \in EqOperands}
    \cup {WildTarget(v) : v \in EqOperands}
    \cup {WildCond(v) : v \in EqOperands}
    \cup {ForwardRef(v) : v \in Lits}
    \cup {ForwardRefInFn(v) : v \in Lits}
    \cup {LastInFn(e) : e \in LastExprs}
    \cup {LastInList(e) : e \in LastExprs}
    \cup {CharOf(n) : n \in CharArgs}
    \cup {StrGet(s, key[1]) : s \in Strings, key \in IndexKeys}
    \cup {StrSet(s, key[1], v) : s \in Strings, key \in IndexKeys, v \in SetValues}
    \cup {BinProgram(tok, l, r) : tok \in BinToks, l \in BinOperands, r \in BinOperands}

\* main.rs:105-158: compile, then Vm::new and the first frame of run
\* (vm.rs:77-83, 99-101)
Loaded(compiled) ==
    /\ prog = compiled.prog
    /\ error = compiled.err
    /\ status = IF compiled.err = NoErr THEN "running" ELSE "compile_error"
    /\ stack = IF compiled.err = NoErr THEN <<Frame_new(0, 0, compiled.prog)>> ELSE <<>>

Init ==
    /\ ast \in Programs
    /\ rev \in BOOLEAN
    /\ Loaded(compile(ast, rev))
    /\ heap = <<>>
    /\ comps = <<>>
    /\ stdout = <<>>
    /\ result = Empty
    /\ kept = Outcome(stack, status, Empty)

Spec == Init /\ [][Next]_vars

\* main.rs:21-50: the exit code of the process for a file or eval run, -1
\* while it runs.  run_eval prints an Err and returns, and main returns after
\* it; a panic ends the process with code 101 and the stack limit with 2
\* (vm.rs:111).
exit_code ==
    CASE status = "running" -> -1
      [] status = "exit2" -> 2
      [] status = "panic" \/ error = PanicErr -> 101
      [] OTHER -> 0

\* vm.rs:105: the loop of run goes on while a frame is on the stack
FairSpec == Spec /\ WF_vars(Next)

(***************************************************************************)
(* Values held by a state, for the properties below                        *)
(***************************************************************************)
\* the values a composite holds
CompVals(map) == {map[key] : key \in DOMAIN map}

\* the values held directly by registers, bindings, heap slots, composites
\* and the result
Roots ==
    UNION {SeqRange(stack[i].regs) \cup SeqRange(stack[i].binds) : i \in 1..Len(stack)}
    \cup SeqRange(heap)
    \cup UNION {CompVals(comps[i]) : i \in 1..Len(comps)}
    \cup {result}

\* a value and the values in its captured lists, transitively
RECURSIVE Reach(_)
Reach(v) ==
    IF v.t = "Func" THEN {v} \cup UNION {Reach(v.captured[j]) : j \in 1..Len(v.captured)}
    ELSE {v}

LiveVals == UNION {Reach(v) : v \in Roots}

Failed == status \in {"error", "panic", "exit2", "compile_error"}

\* the list [v, w] as a composite
ListOf2(v, w) == (<<48>> :> v) @@ (<<49>> :> w)

ResultIsList(v, w) == result.t = "Comp" /\ At(comps, result.id) = ListOf2(v, w)

(***************************************************************************)
(* C1.  MOV visibility.                                                    *)
(***************************************************************************)
\* a MOV whose destination register holds Escaped(slot) writes the resolved
\* source value into heap[slot], changes no other slot, and leaves the
\* register holding Escaped(slot)
C1_MovStep ==
    (/\ Running
     /\ CurInst.op.o = "Mov"
     /\ RegsOk(Top, {CurInst.dest, CurInst.op.r})
     /\ At(Top.regs, CurInst.dest).t = "Escaped")
    => LET slot == At(Top.regs, CurInst.dest).i
       IN /\ InRange(heap, slot)
          /\ status' # "panic"
          /\ heap' = SetAt(heap, slot, Rd(Top, CurInst.op.r))
          /\ Len(stack') >= Len(stack)
             => At(stack'[Len(stack)].regs, CurInst.dest) = Escaped(slot)

\* the closures materialized before n := v2 (or a := b) read v2 when they
\* are called afterwards: the programs end with the value v2 read by every
\* closure
C1_ClosuresRead ==
    \A p \in Pairs :
        /\ ast = MovVisible(p[1], p[2])
           => ~Failed /\ (status = "done" => ResultIsList(ValOf(p[2]), ValOf(p[2])))
        /\ ast \in {MovVisibleNested(p[1], p[2]), MovVisibleInFn(p[1], p[2]),
                    MovEscaped(p[1], p[2])}
           => ~Failed /\ (status = "done" => result = ValOf(p[2]))

\* C1: if closures capturing a variable n of an enclosing scope have been
\* materialized and the enclosing scope then executes n := v2, a MOV whose
\* destination holds Escaped(slot), before the closures are called, every one
\* of them reads v2; the MOV updates heap[slot] and the register of n keeps
\* Escaped(slot).
C1_MovVisibility == [][C1_MovStep /\ C1_ClosuresRead']_vars

\* two closures over n were materialized with n = 1, n := 'a' went through
\* the heap slot, and both closures were called and read 'a'
C1_Witness ==
    /\ ast = MovVisible(NumberLiteral(1), StringLiteral(<<97>>))
    /\ status = "done"
    /\ heap = <<Str(<<97>>)>>
    /\ ResultIsList(Str(<<97>>), Str(<<97>>))

(***************************************************************************)
(* C2.  Closure capture through the heap.                                  *)
(***************************************************************************)
\* the register of the i-th top-level define of a program whose statements
\* define distinct names: the builtins take the registers before it
VarReg(i) == Cardinality(Builtins) + i - 1

\* the value the main frame holds for that variable
MainVar(i) == At(stack[1].regs, VarReg(i))

\* C2: for make := n => () => n, the closure returned by make(v) yields v
\* when called after make's frame was popped, and the closures returned by
\* make(v1) and make(v2) capture two different heap slots, holding v1 and v2,
\* and yield v1 and v2.
C2_CaptureThroughHeap ==
    /\ ast = Scenario3 => ~Failed /\ (status = "done" => stdout = <<52, 50>>)
    /\ \A p \in Pairs :
           ast = MakeTwice(p[1], p[2])
           => /\ ~Failed
              /\ status = "done" => ResultIsList(ValOf(p[1]), ValOf(p[2]))
              /\ (Len(stack) > 0 /\ MainVar(2).t = "Func" /\ MainVar(3).t = "Func")
                 => /\ MainVar(2).captured # MainVar(3).captured
                    /\ \E i, j \in 0..(Len(heap) - 1) :
                           /\ i # j
                           /\ MainVar(2).captured = <<Escaped(i)>>
                           /\ MainVar(3).captured = <<Escaped(j)>>
                           /\ At(heap, i) = ValOf(p[1])
                           /\ At(heap, j) = ValOf(p[2])

\* make(1) and make('a') have returned, f and g hold closures over their own
\* slots, and both have been called: the list under construction holds 1
\* and 'a'
C2_Witness ==
    /\ ast = MakeTwice(NumberLiteral(1), StringLiteral(<<97>>))
    /\ status = "running"
    /\ MainVar(2) = Func(1, <<Escaped(0)>>)
    /\ MainVar(3) = Func(1, <<Escaped(1)>>)
    /\ heap = <<Number(1), Str(<<97>>)>>
    /\ \E i \in 1..Len(comps) : comps[i] = ListOf2(Number(1), Str(<<97>>))

(***************************************************************************)
(* C3.  Assignment to a captured variable inside a closure.                *)
(***************************************************************************)
\* C3: after cnt := 0, inc := () => cnt := cnt + 1 and three calls inc(),
\* the enclosing scope reads cnt = 3 (the program writes 3) and no runtime
\* error occurs.
C3_SharedCounter ==
    ast = Scenario4 => ~Failed /\ (status = "done" => stdout = <<51>>)
(***************************************************************************)
(* C4.  Match expressions.                                                 *)
(***************************************************************************)
MatchPrograms ==
    {MatchMain(c, <<t[1], t[2], t[3]>>) : c \in Lits, t \in Triples}
    \cup {MatchInList(p[1], <<p[2], t>>) : p \in Pairs, t \in Targets}
    \cup {MatchNested(c) : c \in Lits}

\* the match expression of a match program and its condition literal
MatchOf(nodes) == IF nodes[2].k = "MatchExpr" THEN nodes[2] ELSE nodes[2].right.exprs[1]

CondOf(nodes) == ValOf(nodes[1].right)

\* the bytes the evaluation of a clause target writes
TargetOut(t) == IF t.k = "FnCall" THEN t.args[1].s ELSE <<>>

\* whether a clause target value-equals the condition value c
Hit(c, t) ==
    CASE t.k = "EmptyIdent" -> TRUE
      [] t.k = "ListLiteral" -> FALSE
      [] t.k = "FnCall" -> Str(t.args[1].s) = c
      [] OTHER -> ValOf(t) = c

\* the first clause at or after i whose target matches, 0 if none does
RECURSIVE FirstHit(_, _, _)
FirstHit(c, clauses, i) ==
    IF i > Len(clauses) THEN 0
    ELSE IF Hit(c, clauses[i].target) THEN i
    ELSE FirstHit(c, clauses, i + 1)

\* what one evaluation of the match writes: the targets up to the first
\* hit, then the body of that clause and nothing else
RECURSIVE MatchOut(_, _, _)
MatchOut(c, clauses, i) ==
    IF i > Len(clauses) THEN <<>>
    ELSE TargetOut(clauses[i].target)
         \o (IF Hit(c, clauses[i].target) THEN Mark(i) ELSE MatchOut(c, clauses, i + 1))

\* C4: in one evaluation of a match at most one clause body is invoked, the
\* body of the first clause whose target value-equals the condition; after
\* the hit no later target or body is evaluated, the match's result is the
\* body's return value, and `_` matches every condition.
C4_OneClause ==
    /\ ast = Scenario5 => ~Failed /\ (status = "done" => stdout = <<116, 119, 111>>)
    /\ ast \in MatchPrograms
       => /\ ~Failed
          /\ status = "done"
             => /\ stdout = MatchOut(CondOf(ast), MatchOf(ast).clauses, 1)
                /\ FirstHit(CondOf(ast), MatchOf(ast).clauses, 1) > 0
                   => result = Str(Mark(FirstHit(CondOf(ast), MatchOf(ast).clauses, 1)))

\* the same statement for the matches whose targets hold no match expression
C4_OneClauseFlat == ast \notin {MatchNested(c) : c \in Lits} => C4_OneClause

(***************************************************************************)
(* C5.  Heap slots hold concrete values.                                   *)
(***************************************************************************)
\* C5: in every reachable state no heap slot holds an Escaped value.
C5_HeapConcrete == \A i \in 1..Len(heap) : heap[i].t # "Escaped"

\* a := b was executed with both registers escaped: the slot of a received
\* the value of b's slot
C5_Witness ==
    /\ ast = MovEscaped(NumberLiteral(1), StringLiteral(<<97>>))
    /\ status = "done"
    /\ heap = <<Str(<<97>>), Str(<<97>>)>>
    /\ result = Str(<<97>>)

(***************************************************************************)
(* C6.  Heap shape.                                                        *)
(***************************************************************************)
C6_RefsInRange == \A v \in LiveVals : v.t = "Escaped" => v.i < Len(heap)

C6_HeapStep ==
    /\ Len(heap') >= Len(heap)
    /\ IF /\ Running
          /\ CurInst.op.o = "Escape"
          /\ RegsOk(Top, {CurInst.dest, CurInst.op.r})
          /\ At(Top.regs, CurInst.op.r).t # "Escaped"
       THEN heap' = Append(heap, At(Top.regs, CurInst.dest))
       ELSE /\ Len(heap') = Len(heap)
            /\ (Running /\ CurInst.op.o \notin {"Mov", "SetComp"}) => heap' = heap
    /\ C6_RefsInRange'

\* C6: the heap length never decreases and slots keep their index; an ESCAPE
\* of a register that does not hold Escaped appends exactly one slot, no
\* other instruction changes the heap length, and every Escaped(i) held in a
\* register, a binding or a captured list has i < heap length.
C6_HeapShape == [][C6_HeapStep]_vars

\* two ESCAPE steps have appended two slots and a frame binding refers to
\* the second one
C6_Witness ==
    /\ ast = MakeTwice(NumberLiteral(1), StringLiteral(<<97>>))
    /\ Len(heap) = 2
    /\ \E i \in 1..Len(stack) : Escaped(1) \in SeqRange(stack[i].binds)

(***************************************************************************)
(* C7.  Binds arity.                                                       *)
(***************************************************************************)
C7_Arity ==
    /\ \A i \in 1..Len(stack) :
           Len(stack[i].binds) = Len(At(prog, stack[i].block).binds)
    /\ \A v \in LiveVals :
           v.t = "Func" => InRange(prog, v.k) /\ Len(v.captured) = Len(At(prog, v.k).binds)

\* a CALL or matching CALL_IF_EQ of a closure pushes a frame of the closure's
\* block whose bindings are the closure's captured list
C7_CallStep ==
    (/\ Running
     /\ CurInst.op.o \in {"Call", "CallIfEq"}
     /\ RegsOk(Top, {CurInst.op.f})
     /\ Rd(Top, CurInst.op.f).t = "Func"
     /\ status' = "running"
     /\ Len(stack') > 0
     /\ stack'[Len(stack')].ip = 0)
    => /\ stack'[Len(stack')].block = Rd(Top, CurInst.op.f).k
       /\ stack'[Len(stack')].binds = Rd(Top, CurInst.op.f).captured

\* C7: every frame created for block k has as many bindings as k.binds has
\* entries and as the called Func has captured values; every Func(k, captured)
\* held at runtime has |captured| = |k.binds|.
C7_BindsArity == [][C7_CallStep /\ C7_Arity']_vars

\* the closure returned by make(42) is running: its frame has one binding,
\* the captured Escaped(0)
C7_Witness ==
    /\ ast = Scenario3
    /\ Len(stack) = 2
    /\ Top.binds = <<Escaped(0)>>
    /\ Len(At(prog, Top.block).binds) = 1

(***************************************************************************)
(* C8.  Register monotonicity.                                             *)
(***************************************************************************)
\* C8: for every AST that compiles without error, every instruction's
\* destination register of every block is below that block's slots.
C8_RegisterMonotonic ==
    status # "compile_error"
    => \A b \in 1..Len(prog) :
           \A j \in 1..Len(prog[b].code) : prog[b].code[j].dest < prog[b].slots

\* the same statement for the programs that hold no define in argument position
C8_HoistedDefines ==
    ast \notin {DefineInArg(v) : v \in Lits} \cup {DefineInArgCaptured(v) : v \in Lits}
    => C8_RegisterMonotonic

(***************************************************************************)
(* C9.  Capture consistency.                                               *)
(***************************************************************************)
\* the bind r of a closure loaded at position p of block b is a register of
\* b that an earlier ESCAPE or pass-through LOAD_ESC of b prepared
PreparedBind(b, p, r) ==
    /\ r < prog[b].slots
    /\ \E q \in 1..(p - 1) :
           \/ prog[b].code[q].op.o = "Escape" /\ prog[b].code[q].op.r = r
           \/ prog[b].code[q].op.o = "LoadEsc" /\ prog[b].code[q].dest = r

\* the block index of the closure loaded at position p of block b, -1 if the
\* instruction loads no closure
LoadedBlock(b, p) ==
    IF prog[b].code[p].op.o = "LoadConst"
       /\ At(prog[b].consts, prog[b].code[p].op.i).t = "Func"
    THEN At(prog[b].consts, prog[b].code[p].op.i).k
    ELSE -1

\* C9: for every compiled block k, binds and binds_names have the same
\* length, and every k.binds[i] is a register of the block that holds the
\* LOAD_CONST of Func(k), escaped or loaded by a pass-through LOAD_ESC before
\* that LOAD_CONST; never a register of a more distant enclosing block.
C9_CaptureConsistent ==
    status # "compile_error"
    => /\ \A k \in 1..Len(prog) : Len(prog[k].binds) = Len(prog[k].binds_names)
       /\ \A b \in 1..Len(prog) :
              \A p \in 1..Len(prog[b].code) :
                  LoadedBlock(b, p) >= 0
                  => \A i \in 1..Len(At(prog, LoadedBlock(b, p)).binds) :
                         PreparedBind(b, p, At(prog, LoadedBlock(b, p)).binds[i])

\* the same statement for the programs that hold no define in argument position
C9_HoistedDefines ==
    ast \notin {DefineInArg(v) : v \in Lits} \cup {DefineInArgCaptured(v) : v \in Lits}
    => C9_CaptureConsistent

(***************************************************************************)
(* C10.  Composite sharing.                                                *)
(***************************************************************************)
SharePrograms(v) ==
    {ShareMov(v), ShareMovRev(v), ShareArg(v), ShareRet(v), ShareCapture(v),
     ShareCaptureRev(v)}

ListOf3(u, v, w) == (<<48>> :> u) @@ (<<49>> :> v) @@ (<<50>> :> w)

\* the string a key literal is stored under
KeyString(k) == IF k.k = "NumberLiteral" THEN format_number(k.n) ELSE k.s

\* a SET_COMP on a composite with a key that has a rendering stores the
\* resolved value of the source register under that rendering and changes no
\* other entry and no other composite
C11_SetStep ==
    (/\ Running
     /\ CurInst.op.o = "SetComp"
     /\ RegsOk(Top, {CurInst.op.c, CurInst.op.key, CurInst.op.v})
     /\ Rd(Top, CurInst.op.c).t = "Comp"
     /\ to_ink_string(Rd(Top, CurInst.op.key)).ok)
    => LET id == Rd(Top, CurInst.op.c).id
           ks == to_ink_string(Rd(Top, CurInst.op.key)).s
       IN /\ status' \notin {"error", "panic"}
          /\ Len(comps') = Len(comps)
          /\ DOMAIN At(comps', id) = DOMAIN At(comps, id) \cup {ks}
          /\ At(comps', id)[ks] = Rd(Top, CurInst.op.v)
          /\ At(comps', id)[ks].t # "Escaped"
          /\ \A other \in DOMAIN At(comps, id) \ {ks} :
                 At(comps', id)[other] = At(comps, id)[other]
          /\ \A j \in 0..(Len(comps) - 1) : j # id => At(comps', j) = At(comps, j)

\* a GET_COMP on a composite yields the value stored under the key's
\* rendering, and Null when nothing was stored under it
C11_GetStep ==
    (/\ Running
     /\ CurInst.op.o = "GetComp"
     /\ RegsOk(Top, {CurInst.op.c, CurInst.op.key, CurInst.dest})
     /\ Rd(Top, CurInst.op.c).t = "Comp"
     /\ to_ink_string(Rd(Top, CurInst.op.key)).ok)
    => LET map == At(comps, Rd(Top, CurInst.op.c).id)
           ks == to_ink_string(Rd(Top, CurInst.op.key)).s
           got == IF ks \in DOMAIN map THEN map[ks] ELSE Null
       IN /\ status' \notin {"error", "panic"}
          /\ Len(stack') = Len(stack) => At(stack'[Len(stack)].regs, CurInst.dest) = got
          /\ status' = "done" => result' = got

\* the programs that set two keys and read three back: the key set last
\* yields its value, the key set first yields the later value when both keys
\* are stored under the same string and its own value otherwise, and the key
\* never set yields Null unless one of the two keys is stored under its string
C11_Programs ==
    /\ \A k1, k2 \in Keys, v \in Lits :
           ast = RoundTrip(k1, k2, v)
           => /\ ~Failed
              /\ status = "done"
                 => /\ result.t = "Comp"
                    /\ At(comps, result.id) =
                          ListOf3(ValOf(v),
                                  IF KeyString(k1) = KeyString(k2) THEN ValOf(v)
                                  ELSE Str(<<98>>),
                                  Null)
    /\ \A k \in Keys, v \in Lits :
           ast = RoundTripEscaped(k, v)
           => ~Failed /\ (status = "done" => result = ValOf(v))

\* C11: for a composite c, every key k that has a string rendering and every
\* value v, GET_COMP(c, k) after SET_COMP(c, k, v) yields v, the heap-resolved
\* value of the source register, and GET_COMP of a key never set yields Null.
C11_CompRoundTrip == [][C11_SetStep /\ C11_GetStep /\ C11_Programs']_vars

\* c.(1) := 'b' and c.('a') := 2 were executed and the three reads gave 2,
\* 'b' and Null
C11_Witness ==
    /\ ast = RoundTrip(NumberLiteral(1), StringLiteral(<<97>>), NumberLiteral(2))
    /\ status = "done"
    /\ At(comps, 0) = (<<49>> :> Str(<<98>>)) @@ (<<97>> :> Number(2))
    /\ At(comps, result.id) = ListOf3(Number(2), Str(<<98>>), Null)

(***************************************************************************)
(* C12.  Value equality.                                                   *)
(***************************************************************************)
\* the kind of value an operand of the equality programs evaluates to
KindOf(node) ==
    CASE node.k \in {"NumberLiteral", "StringLiteral", "BooleanLiteral"} -> "scalar"
      [] node.k = "BinaryExpr" -> "null"
      [] node.k \in {"ObjectLiteral", "ListLiteral"} -> "comp"
      [] OTHER -> "func"

\* whether the values of two operands that are not both functions are equal:
\* scalars by payload, Null with Null, composites by their entries (the
\* composite operands have equal entries only when they are the same literal)
SameValue(l, r) ==
    CASE KindOf(l) = "scalar" /\ KindOf(r) = "scalar" -> ValOf(l) = ValOf(r)
      [] KindOf(l) = "null" /\ KindOf(r) = "null" -> TRUE
      [] KindOf(l) = "comp" /\ KindOf(r) = "comp" -> l = r
      [] OTHER -> FALSE

\* C12: value equality between two values neither of which is Empty holds
\* only when both are of the same kind: scalars are equal iff their payloads
\* are, composites iff they have the same keys with entrywise-equal values,
\* and a composite or a function never equals a number, string, boolean or
\* Null.
C12_ValueEquality ==
    \A l, r \in EqOperands :
        (ast = EqProgram(l, r) /\ ~(KindOf(l) = "func" /\ KindOf(r) = "func"))
        => ~Failed /\ (status = "done" => result = Bool(SameValue(l, r)))

\* the same statement for the comparisons whose left operand is a scalar or Null
C12_ScalarLeft ==
    \A l, r \in EqOperands :
        (ast = EqProgram(l, r) /\ KindOf(l) \in {"scalar", "null"})
        => ~Failed /\ (status = "done" => result = Bool(SameValue(l, r)))

(***************************************************************************)
(* C13.  Stack limit.                                                      *)
(***************************************************************************)
C13_Depth == Len(stack) <= MAX_STACK_FRAMES

\* at the limit the only step is the exit with code 2, which runs no
\* instruction, and nothing happens after the exit
C13_LimitStep ==
    /\ status # "exit2"
    /\ C13_Depth'
    /\ (status = "running" /\ Len(stack) = MAX_STACK_FRAMES)
       => /\ status' = "exit2"
          /\ UNCHANGED <<prog, heap, stack, comps, stdout, result, error>>

\* C13: in every reachable state the call stack holds at most
\* MAX_STACK_FRAMES frames; when the depth reaches the limit the VM executes
\* no further instruction and the process terminates with exit code 2.
C13_StackLimit == [](C13_Depth) /\ [][C13_LimitStep]_vars

\* f := n => 1 + f(n), f(1) has reached the limit and exited with code 2
C13_Witness ==
    /\ ast = Recurse
    /\ status = "exit2"
    /\ Len(stack) = MAX_STACK_FRAMES

(***************************************************************************)
(* C14.  Termination.                                                      *)
(***************************************************************************)
\* C14: every run of the VM terminates, with a result value, a runtime error
\* or the stack-limit exit; in particular f := () => f(), f() is eventually
\* stopped by the recursion guard.
C14_Terminates == <>(status # "running")

\* the same statement for every program but f := () => f(), f()
C14_TerminatesNoTailLoop == (ast # TailLoop) => <>(status # "running")

\* a call in tail position replaced the caller's frame: f is running at
\* depth one
C14_TailFrame ==
    /\ ast = TailLoop
    /\ status = "running"
    /\ Len(stack) = 1
    /\ Top.block = 1
    /\ Top.ip > 0

(***************************************************************************)
(* C15.  Error propagation.                                                *)
(***************************************************************************)
ErrorKinds ==
    {"InvalidOperand", "InvalidFunctionCall", "ExpectedCompositeValue",
     "ExpectedIntegerIndex", "ExpectedString", "IndexOutOfBounds",
     "NotEnoughArguments", "InvalidArguments"}

\* the step on which a handler fails returns an error kind and changes
\* neither the frames and their registers, nor the heap, the composites, the
\* output or the result; no step follows it
C15_FailStep ==
    /\ status # "error"
    /\ status' = "error"
       => /\ error' \in ErrorKinds
          /\ UNCHANGED <<stack, heap, comps, stdout, result>>

\* a program that evaluates a failing expression between out('A') and
\* out('B') never completes, and when it has failed it holds the error of
\* that expression and has written A only
C15_Programs ==
    \A e \in Failing :
        ast \in {ErrorAt(e[1]), ErrorInFn(e[1])}
        => /\ status \in {"running", "error"}
           /\ status = "error" => error = e[2] /\ stdout = Mark(1)
           /\ status = "running" => stdout \in {<<>>, Mark(1)}

\* C15: when an opcode handler fails, run returns that error at once: no
\* later instruction is executed, the destination register of the failing
\* instruction is not written, no frame is pushed or popped, and the heap is
\* unchanged by the failing step.
C15_ErrorReturns == [][C15_FailStep /\ C15_Programs']_vars

\* 1 - 'a' failed inside f, with f's frame on the stack and y in the heap
C15_Witness ==
    /\ ast = ErrorInFn(BinaryExpr("SubOp", NumberLiteral(1), StringLiteral(<<97>>)))
    /\ status = "error"
    /\ error = "InvalidOperand"
    /\ Len(stack) = 2
    /\ heap = <<Number(1)>>
    /\ stdout = Mark(1)

(***************************************************************************)
(* C16.  Exit codes.                                                       *)
(***************************************************************************)
\* C16: a run that ends in a compile or runtime error makes the process exit
\* with a non-zero code, and a successful evaluation exits with code 0.
C16_ExitCodes ==
    /\ Failed => exit_code # 0
    /\ status = "done" => exit_code = 0

\* the same statement for the runs that end without an error value: a
\* result, a panic or the stack limit
C16_ExitCodesNoErr == (error = NoErr \/ error = PanicErr) => C16_ExitCodes

\* out('A'), x := 1 - 'a', out('B') has ended with InvalidOperand
C16_ErrorRun ==
    /\ ast = ErrorAt(BinaryExpr("SubOp", NumberLiteral(1), StringLiteral(<<97>>)))
    /\ status = "error"
    /\ exit_code = 0

(***************************************************************************)
(* C17.  Operand kinds of the binary opcodes.                              *)
(***************************************************************************)
\* whether the rules accept the opcode o on the operand literals l and r
Accepted(o, l, r) ==
    CASE l.k = "NumberLiteral" /\ r.k = "NumberLiteral" -> TRUE
      [] l.k = "StringLiteral" /\ r.k = "StringLiteral" -> o \in {"Add", "And", "Or", "Xor"}
      [] l.k = "BooleanLiteral" /\ r.k = "BooleanLiteral" ->
             o \in {"Add", "Mul", "And", "Or", "Xor"}
      [] OTHER -> FALSE

\* the bits of a byte, and the byte of a set of bits
BitsOf(x) == {i \in 0..7 : (x \div (2 ^ i)) % 2 = 1}

RECURSIVE ByteOf(_)
ByteOf(bits) ==
    IF bits = {} THEN 0
    ELSE LET i == CHOOSE j \in bits : TRUE IN 2 ^ i + ByteOf(bits \ {i})

\* byte i (from 1) of a byte string padded with zeros
Padded(s, i) == IF i <= Len(s) THEN s[i] ELSE 0

\* the elementwise operation on two byte strings padded to the longer length
Elementwise(o, s, u) ==
    [i \in 1..(IF Len(s) < Len(u) THEN Len(u) ELSE Len(s)) |->
        ByteOf(CASE o = "And" -> BitsOf(Padded(s, i)) \cap BitsOf(Padded(u, i))
                 [] o = "Or" -> BitsOf(Padded(s, i)) \cup BitsOf(Padded(u, i))
                 [] o = "Xor" -> (BitsOf(Padded(s, i)) \cup BitsOf(Padded(u, i)))
                                 \ (BitsOf(Padded(s, i)) \cap BitsOf(Padded(u, i))))]

\* what the rules say about the value of an accepted operation
AcceptedResult(o, l, r, v) ==
    CASE l.k = "NumberLiteral" -> v.t = (IF o \in {"Gtr", "Lss"} THEN "Bool" ELSE "Number")
      [] l.k = "StringLiteral" ->
             v = Str(IF o = "Add" THEN l.s \o r.s ELSE Elementwise(o, l.s, r.s))
      [] l.k = "BooleanLiteral" ->
             v = Bool(CASE o \in {"Add", "Or"} -> l.b \/ r.b
                        [] o \in {"Mul", "And"} -> l.b /\ r.b
                        [] o = "Xor" -> l.b # r.b)

\* C17: for every pair of operand kinds, number-number is accepted by ADD,
\* SUB, MUL, DIV, MOD, AND, OR, XOR, GTR, LSS; string-string only by ADD
\* (concatenation) and AND, OR, XOR (elementwise over operands zero-padded to
\* the longer length); boolean-boolean only by ADD, MUL, AND, OR, XOR, giving
\* logical OR, AND, AND, OR, XOR; every other combination fails with
\* InvalidOperand.
C17_OperandKinds ==
    \A tok \in BinToks, l, r \in BinOperands :
        ast = BinProgram(tok, l, r)
        => IF Accepted(BinOpOf(tok), l, r)
           THEN /\ ~Failed
                /\ status = "done" => AcceptedResult(BinOpOf(tok), l, r, result)
           ELSE /\ status \in {"running", "error"}
                /\ status = "error" => error = "InvalidOperand"

\* 'a' & 'bc' has been evaluated over the operands padded to two bytes
C17_Witness ==
    /\ ast = BinProgram("AndOp", StringLiteral(<<97>>), StringLiteral(<<98, 99>>))
    /\ status = "done"
    /\ result = Str(<<96, 0>>)

\* 'a' > 'bc' has failed
C17_Rejected ==
    /\ ast = BinProgram("GtOp", StringLiteral(<<97>>), StringLiteral(<<98, 99>>))
    /\ status = "error"
    /\ error = "InvalidOperand"

(***************************************************************************)
(* C18.  GET_COMP on a byte string.                                        *)
(***************************************************************************)
\* C18: GET_COMP on a byte string s of length n with a key that coerces to
\* index i returns the one-byte string [s[i]] for every i < n and Null for
\* every i >= n, including i = n; it never aborts the VM for an out-of-range
\* index.
C18_StringGet ==
    \A s \in Strings, key \in IndexKeys :
        ast = StrGet(s, key[1])
        => /\ ~Failed
           /\ status = "done"
              => result = IF key[2] < Len(s) THEN Str(<<s[key[2] + 1]>>) ELSE Null

\* the same statement for every index but the length of the string
C18_StringGetNotAtEnd ==
    \A s \in Strings, key \in IndexKeys :
        (ast = StrGet(s, key[1]) /\ key[2] # Len(s))
        => /\ ~Failed
           /\ status = "done"
              => result = IF key[2] < Len(s) THEN Str(<<s[key[2] + 1]>>) ELSE Null

\* a := 'ab', x := a.2 has stopped on the index equal to the length
C18_AtEnd ==
    /\ ast = StrGet(<<97, 98>>, NumberLiteral(2))
    /\ status = "panic"

(***************************************************************************)
(* C19.  SET_COMP on a byte string.                                        *)
(***************************************************************************)
\* the byte string the rule gives for writing v at index i of s: its length
\* is the larger of |s| and i + |v|, bytes i..i+|v|-1 are v, the other bytes
\* are those of s, and zeros where s had none
Spliced(s, i, v) ==
    [j \in 1..(IF Len(s) < i + Len(v) THEN i + Len(v) ELSE Len(s)) |->
        IF j > i /\ j <= i + Len(v) THEN v[j - i]
        ELSE IF j <= Len(s) THEN s[j] ELSE 0]

\* C19: SET_COMP on a byte string s of length n with index i and byte-string
\* value v appends v if i = n, zero-pads s and writes v at i if i > n, and
\* overwrites bytes i..i+|v|-1 if i < n, the length becoming max(n, i + |v|);
\* the other bytes are unchanged, and a value that is not a byte string
\* fails with ExpectedString.
C19_StringSet ==
    \A s \in Strings, key \in IndexKeys, v \in SetValues :
        ast = StrSet(s, key[1], v)
        => IF v.k = "StringLiteral"
           THEN /\ ~Failed
                /\ status = "done" => result = Str(Spliced(s, key[2], v.s))
           ELSE /\ status \in {"running", "error"}
                /\ status = "error" => error = "ExpectedString"

\* the same statement for the indexes up to the length of the string
C19_StringSetWithin ==
    \A s \in Strings, key \in IndexKeys, v \in SetValues :
        (ast = StrSet(s, key[1], v) /\ key[2] <= Len(s))
        => IF v.k = "StringLiteral"
           THEN /\ ~Failed
                /\ status = "done" => result = Str(Spliced(s, key[2], v.s))
           ELSE /\ status \in {"running", "error"}
                /\ status = "error" => error = "ExpectedString"

\* a := 'ab', a.3 := 'c' has failed on the index past the length
C19_PastEnd ==
    /\ ast = StrSet(<<97, 98>>, NumberLiteral(3), StringLiteral(<<99>>))
    /\ status = "error"
    /\ error = "IndexOutOfBounds"

(***************************************************************************)
(* C20.  char.                                                             *)
(***************************************************************************)
\* C20: for every number n, char(n) returns a byte string of length exactly
\* one whose only byte equals n mod 256 (200 gives the byte 200, 300 gives
\* the byte 44).
C20_CharByte ==
    \A n \in CharArgs :
        ast = CharOf(n) => ~Failed /\ (status = "done" => result = Str(<<n % 256>>))

\* the same statement for the numbers below 128
C20_CharAscii ==
    \A n \in CharArgs :
        (ast = CharOf(n) /\ n < 128)
        => ~Failed /\ (status = "done" => result = Str(<<n % 256>>))

\* x := char(200) has returned the two bytes of U+00C8
C20_TwoBytes ==
    /\ ast = CharOf(200)
    /\ status = "done"
    /\ result = Str(<<195, 136>>)

(***************************************************************************)
(* C21.  The value of a body.                                              *)
(***************************************************************************)
\* whether v is the value of the last expression e of the return programs,
\* in which c is the first composite allocated
LastValue(e, v) ==
    CASE e.k = "NumberLiteral" -> v = Number(1)
      [] e.k = "BinaryExpr" /\ e.op = "AddOp" -> v = Number(3)
      [] e.k = "Ident" -> v = Comp(0)
      [] e.k = "ListLiteral" ->
             v.t = "Comp" /\ v.id # 0 /\ At(comps, v.id) = (<<48>> :> Number(1))
      [] e.k = "ObjectLiteral" ->
             v.t = "Comp" /\ v.id # 0 /\ At(comps, v.id) = (<<107>> :> Number(1))
      [] OTHER -> v = Comp(0) /\ At(comps, 0) = (<<107>> :> Number(1))

\* C21: when a function body or a non-empty expression list finishes, the
\* value delivered to the caller is the value of its last expression; also
\* when the last expression is a non-empty list literal, an object literal
\* with entries, or an accessor assignment c.k := v, whose values are the
\* composite.
C21_LastValue ==
    \A e \in LastExprs :
        ast \in {LastInFn(e), LastInList(e)}
        => ~Failed /\ (status = "done" => LastValue(e, result))

\* the same statement for the last expressions whose final instruction
\* writes their value: 1, 1 + 2 and c
C21_LastWritten ==
    \A e \in LastExprs :
        (ast \in {LastInFn(e), LastInList(e)}
         /\ e.k \notin {"ListLiteral", "ObjectLiteral"}
         /\ ~(e.k = "BinaryExpr" /\ e.op = "DefineOp"))
        => ~Failed /\ (status = "done" => LastValue(e, result))

\* c := {}, f := () => [1], x := f() has ended with x = Empty although the
\* list was built
C21_ListLost ==
    /\ ast = LastInFn(ListLiteral(<<NumberLiteral(1)>>))
    /\ status = "done"
    /\ result = Empty
    /\ Len(comps) = 2
    /\ At(comps, 1) = (<<48>> :> Number(1))

(***************************************************************************)
(* C22.  Forward declaration.                                              *)
(***************************************************************************)
\* C22: with a := () => b() defined before b := () => v at the top level of
\* the same scope, a call a() made after both definitions returns v: a's
\* closure captured the heap slot of b's forward-declared register and the
\* later b := ... wrote through it.
C22_ForwardDeclared ==
    \A v \in Lits :
        /\ ast \in {ForwardRef(v), ForwardRefInFn(v)}
           => ~Failed /\ (status = "done" => result = ValOf(v))
        /\ (ast = ForwardRef(v) /\ Len(stack) > 0 /\ MainVar(1).t = "Func")
           => /\ MainVar(1).captured = <<Escaped(0)>>
              /\ MainVar(2) = Escaped(0)
              /\ At(heap, 0).t \in {"Empty", "Func"}

\* a() has returned 'a': a captured slot 0 while it was Empty, and b := ... wrote b's
\* closure into the slot
C22_Witness ==
    /\ ast = ForwardRef(StringLiteral(<<97>>))
    /\ status = "done"
    /\ result = Str(<<97>>)
    /\ Len(heap) = 1
    /\ At(heap, 0).t = "Func"

(***************************************************************************)
(* C23.  Empty is a wildcard of equality.                                  *)
(***************************************************************************)
\* a CALL_IF_EQ one of whose compared registers holds Empty takes its branch:
\* the frame of the branch's closure is on top after the step
C23_BranchStep ==
    (/\ Running
     /\ CurInst.op.o = "CallIfEq"
     /\ RegsOk(Top, {CurInst.op.f, CurInst.op.a, CurInst.op.b})
     /\ Empty \in {Rd(Top, CurInst.op.a), Rd(Top, CurInst.op.b)}
     /\ Rd(Top, CurInst.op.f).t = "Func")
    => /\ status' = "running"
       /\ stack'[Len(stack')].ip = 0
       /\ stack'[Len(stack')].block = Rd(Top, CurInst.op.f).k

\* _ = v and v = _ are true and a match on `_`, as target or as condition,
\* runs its clause, for every operand v
C23_Programs ==
    \A v \in EqOperands :
        /\ ast \in {WildLeft(v), WildRight(v)}
           => ~Failed /\ (status = "done" => result = Bool(TRUE))
        /\ ast \in {WildTarget(v), WildCond(v)}
           => ~Failed /\ (status = "done" => result = Number(1))

\* C23: Empty is a wildcard of value equality on both sides: for every value
\* v, eq(Empty, v) and eq(v, Empty) are true, so a CALL_IF_EQ whose target
\* register is Empty (a `_` target) always takes its branch.
C23_EmptyWildcard == [][C23_BranchStep /\ C23_Programs']_vars

\* 2 :: {_ -> 1} has taken its branch
C23_Witness ==
    /\ ast = WildTarget(NumberLiteral(2))
    /\ status = "done"
    /\ result = Number(1)

(***************************************************************************)
(* C24.  ESCAPE.                                                           *)
(***************************************************************************)
\* the stack after a step of the innermost frame that leaves it with the
\* registers regs
Advanced(regs) ==
    [stack EXCEPT ![Len(stack)].regs = regs, ![Len(stack)].ip = Top.ip + 1]

\* an ESCAPE names the register it promotes as its destination; on a value x
\* that is not Escaped it appends x as slot Len(heap) and leaves Escaped of
\* that slot in the register, on an Escaped it changes nothing
C24_EscapeStep ==
    (/\ Running
     /\ CurInst.op.o = "Escape")
    => /\ CurInst.dest = CurInst.op.r
       /\ RegsOk(Top, {CurInst.op.r})
       /\ status' = "running"
       /\ UNCHANGED <<comps, stdout>>
       /\ IF At(Top.regs, CurInst.op.r).t # "Escaped"
          THEN /\ heap' = Append(heap, At(Top.regs, CurInst.op.r))
               /\ stack' = Advanced(SetAt(Top.regs, CurInst.op.r, Escaped(Len(heap))))
          ELSE /\ heap' = heap
               /\ stack' = Advanced(Top.regs)

\* C24: ESCAPE(r) on a register holding a non-Escaped value x appends x as
\* heap slot i = old heap length and sets the register to Escaped(i), leaving
\* every other register and heap slot unchanged; on a register that already
\* holds Escaped it changes neither the register nor the heap, so executing
\* it twice has the same effect as executing it once.
C24_EscapeIdempotent == [][C24_EscapeStep]_vars

\* the main block has executed two ESCAPEs of the same register and the heap
\* holds one slot
C24_Witness ==
    /\ status = "running"
    /\ Len(stack) = 1
    /\ Len(heap) = 1
    /\ \E q, p \in 1..Top.ip :
           /\ q < p
           /\ CurBlock.code[q].op.o = "Escape"
           /\ CurBlock.code[p].op.o = "Escape"
           /\ CurBlock.code[q].op.r = CurBlock.code[p].op.r
           /\ At(Top.regs, CurBlock.code[p].op.r) = Escaped(0)

(***************************************************************************)
(* C25.  Closure materialization.                                          *)
(***************************************************************************)
\* the LOAD_CONST of a closure constant that the innermost frame is about
\* to execute, with the registers of its binds in range
C25_Materializes ==
    /\ Running
    /\ CurInst.op.o = "LoadConst"
    /\ At(CurBlock.consts, CurInst.op.i).t = "Func"
    /\ InRange(prog, At(CurBlock.consts, CurInst.op.i).k)
    /\ RegsOk(Top, SeqRange(At(prog, At(CurBlock.consts, CurInst.op.i).k).binds))
    /\ Len(stack') = Len(stack)

\* the binds of the block of that constant
C25_Binds == At(prog, At(CurBlock.consts, CurInst.op.i).k).binds

\* the closure the step stored
C25_Stored == At(stack'[Len(stack)].regs, CurInst.dest)

\* C25 as stated: on LOAD_CONST of Func(k, []) the stored closure's captured
\* list has, for each i, the value of register k.binds[i] of the executing
\* frame resolved through the heap, so that no entry is an Escaped
\* reference; where k.binds is empty the stored value is Func(k, []).
C25_CapturedResolved ==
    [][C25_Materializes
       => /\ C25_Stored.t = "Func"
          /\ C25_Stored.k = At(CurBlock.consts, CurInst.op.i).k
          /\ C25_Stored.captured = [i \in 1..Len(C25_Binds) |-> Rd(Top, C25_Binds[i])]
          /\ \A i \in 1..Len(C25_Stored.captured) :
                 C25_Stored.captured[i].t # "Escaped"]_vars

\* C25 amended: the captured list has, for each i, the content of register
\* k.binds[i] of the executing frame as it is, not resolved; every such
\* register holds an Escaped reference at that point, so every entry of a
\* captured list is an Escaped reference to a heap slot; where k.binds is
\* empty the stored value is Func(k, []).
C25_CapturedReferences ==
    [][C25_Materializes
       => /\ C25_Stored.t = "Func"
          /\ C25_Stored.k = At(CurBlock.consts, CurInst.op.i).k
          /\ C25_Stored.captured = [i \in 1..Len(C25_Binds) |-> At(Top.regs, C25_Binds[i])]
          /\ \A i \in 1..Len(C25_Stored.captured) :
                 /\ C25_Stored.captured[i].t = "Escaped"
                 /\ C25_Stored.captured[i].i < Len(heap)]_vars

\* n := 1, f := () => n has materialized the closure with the reference to
\* the slot of n, which holds 1
C25_Witness ==
    /\ ast = MovVisible(NumberLiteral(1), StringLiteral(<<97>>))
    /\ status = "running"
    /\ heap = <<Number(1)>>
    /\ Len(stack) = 1
    /\ MainVar(2).t = "Func"
    /\ MainVar(2).captured = <<Escaped(0)>>
    /\ \E r \in 1..Len(Top.regs) : Top.regs[r] = Escaped(0)

(***************************************************************************)
(* C26.  The frame of a closure call.                                      *)
(***************************************************************************)
\* the innermost frame is about to execute a CALL of a closure whose
\* arguments and captured values fit the callee's block
C26_CallsClosure ==
    /\ Running
    /\ CurInst.op.o = "Call"
    /\ RegsOk(Top, {CurInst.op.f})
    /\ Rd(Top, CurInst.op.f).t = "Func"
    /\ RegsOk(Top, SeqRange(CurInst.op.args))
    /\ callee_fits(Rd(Top, CurInst.op.f).k, Rd(Top, CurInst.op.f).captured, CurInst.op.args)

\* frame fr is the frame the claim describes for the call the innermost
\* frame is about to execute, its return register left aside
C26_Prepared(fr) ==
    /\ fr.ip = 0
    /\ fr.block = Rd(Top, CurInst.op.f).k
    /\ Len(fr.regs) = At(prog, fr.block).slots
    /\ \A i \in 1..Len(fr.regs) :
           fr.regs[i] = IF i <= Len(CurInst.op.args)
                        THEN or_from_heap(At(Top.regs, CurInst.op.args[i]), heap)
                        ELSE Empty
    /\ fr.binds = Rd(Top, CurInst.op.f).captured

C27_Called(p, v1, v2) ==
    /\ ast \in {SecondParam(p, v1, v2), SecondParamBare(p, v1, v2)}
    /\ status # "running"

\* C27: parameter p_i is register i of the new block, so the second
\* parameter of a function called with (v1, v2) evaluates to v2 in the body,
\* also when the first parameter is the empty identifier _:
\* ((_, x) => x)(1, 2) evaluates to 2.
C27_Positional ==
    \A p \in FirstParams : \A v1, v2 \in Lits :
        C27_Called(p, v1, v2) => status = "done" /\ result = ValOf(v2)

\* the same where every parameter is a name
C27_NamedPositional ==
    \A v1, v2 \in Lits :
        C27_Called(Ident("y"), v1, v2) => status = "done" /\ result = ValOf(v2)

\* f := (_, x) => (0, x), n := f(1, 2), n yields the first argument
C27_FirstForSecond ==
    /\ ast = SecondParam(EmptyIdent, NumberLiteral(1), NumberLiteral(2))
    /\ status = "done"
    /\ result = Number(1)

(***************************************************************************)
(* C28.  The value a return writes into the caller.                        *)
(***************************************************************************)
\* the step executes the last instruction of the innermost frame, which is
\* no call, and pops that one frame; its caller goes on
C28_Returns ==
    /\ Running
    /\ CurInst.op.o \notin {"Call", "CallIfEq"}
    /\ Top.ip + 1 = Len(CurBlock.code)
    /\ Len(stack) >= 2
    /\ Len(stack') = Len(stack) - 1
    /\ status' = "running"

\* C28: when a frame at its end is popped and a caller frame remains, the
\* value written into the caller's return register is the resolved value of
\* the callee's last destination register, never an Escaped reference.
C28_ReturnResolved ==
    [][C28_Returns
       => /\ At(stack'[Len(stack')].regs, Top.rp).t # "Escaped"
          /\ CurInst.op.o = "Nop"
                 => At(stack'[Len(stack')].regs, Top.rp)
                        = or_from_heap(At(Top.regs, CurInst.dest), heap)]_vars

\* the part of the claim about the last frame: when no frame remains, the
\* program result is a resolved value
C28_ResultResolved ==
    [][(Running /\ stack' = <<>> /\ status' = "done") => result'.t # "Escaped"]_vars

\* h() has returned its captured local n: a register of the main frame
\* holds the reference to the slot of n, and no variable of main is captured
C28_CallerAliasesSlot ==
    /\ ast = ReturnCaptured(NumberLiteral(1))
    /\ status = "running"
    /\ Len(stack) = 1
    /\ heap = <<Number(1)>>
    /\ At(prog, 0).binds = <<>>
    /\ \E r \in 1..Len(Top.regs) : Top.regs[r] = Escaped(0)

\* n := 1, f := () => n, x := f() + (n := 2), x: the value f returned is
\* read after n was bound again and the sum is 4, not 3
C28_ReturnedValueChanges ==
    /\ ast = ReturnThenRebind
    /\ status = "done"
    /\ result = Number(4)

(***************************************************************************)
(* C29.  The call-stack depth after a call.                                *)
(***************************************************************************)
\* the effect of the CALL or CALL_IF_EQ the innermost frame is about to execute
C29_Effect ==
    IF CurInst.op.o = "Call"
    THEN exec_call(Top, CurInst.dest, CurInst.op.f, CurInst.op.args)
    ELSE exec_callifeq(Top, CurInst.dest, CurInst.op.f, CurInst.op.a,
                       CurInst.op.b, CurInst.op.skip)

\* the step executes a CALL, or a CALL_IF_EQ whose equality holds, on a closure
C29_CallsClosure ==
    /\ Running
    /\ CurInst.op.o \in {"Call", "CallIfEq"}
    /\ C29_Effect.err = NoErr
    /\ C29_Effect.callee # NoFrame

\* the caller's frame after the step, were it kept
C29_Caller == [Top EXCEPT !.ip = C29_Effect.ip + 1]

C30_Movs(b) == {j \in 1..Len(At(prog, b).code) : At(prog, b).code[j].op.o = "Mov"}

\* the number of defines of a name among the statements nodes, each of which
\* is forward-declared to the next register of the block
RECURSIVE C30_Declared(_, _)
C30_Declared(nodes, i) ==
    IF i > Len(nodes) THEN 0
    ELSE (IF IsDefineIdent(nodes[i]) THEN 1 ELSE 0) + C30_Declared(nodes, i + 1)

\* the registers forward-declared in the scope of the main block: the ones
\* that follow the builtins
C30_MainDeclared ==
    {Cardinality(Builtins) + i : i \in 0..(C30_Declared(ast, 1) - 1)}

\* the function literals a node is compiled through, one for each block:
\* the function literals proper (gen.rs:658), the bodies of match clauses
\* (gen.rs:455-458) and the expression lists (gen.rs:490-493)
RECURSIVE C30_Literals(_)
C30_Literals(node) ==
    CASE node.k = "UnaryExpr" -> C30_Literals(node.arg)
      [] node.k = "BinaryExpr" -> C30_Literals(node.left) \cup C30_Literals(node.right)
      [] node.k = "FnCall" ->
             C30_Literals(node.func)
             \cup UNION {C30_Literals(node.args[i]) : i \in 1..Len(node.args)}
      [] node.k = "MatchClause" ->
             C30_Literals(node.target) \cup C30_Literals(FnLiteral(<<>>, node.expr))
      [] node.k = "MatchExpr" ->
             C30_Literals(node.cond)
             \cup UNION {C30_Literals(node.clauses[i]) : i \in 1..Len(node.clauses)}
      [] node.k = "ExprList" ->
             IF Len(node.exprs) = 0 THEN {} ELSE C30_Literals(FnLiteral(<<>>, node))
      [] node.k = "ObjectEntry" -> C30_Literals(node.key) \cup C30_Literals(node.val)
      [] node.k = "ObjectLiteral" ->
             UNION {C30_Literals(node.entries[i]) : i \in 1..Len(node.entries)}
      [] node.k = "ListLiteral" -> UNION {C30_Literals(node.items[i]) : i \in 1..Len(node.items)}
      [] node.k = "FnLiteral" ->
             {node} \cup UNION {C30_Literals(body_nodes(node.body)[i]) :
                                   i \in 1..Len(body_nodes(node.body))}
      [] OTHER -> {}

\* the registers forward-declared in the scope of the block of the function
\* literal fn: the ones that follow its named parameters
C30_FnDeclared(fn) ==
    {Cardinality({a \in 1..Len(fn.args) : fn.args[a].k = "Ident"}) + i :
        i \in 0..(C30_Declared(body_nodes(fn.body), 1) - 1)}

\* C30: for every define name := expr lowered in a block, the destination of
\* the emitted MOV is the register forward-declared for name in the scope of
\* that block: in the main block one of the registers that follow the
\* builtins, in the block of a function literal one of the registers that
\* follow its parameters, never a register number that belongs to an
\* enclosing block.
C30_OwnScopeRegister ==
    status # "compile_error"
    => /\ \A j \in C30_Movs(0) : At(prog, 0).code[j].dest \in C30_MainDeclared
       /\ \A b \in 1..(Len(prog) - 1) :
              \E fn \in UNION {C30_Literals(ast[i]) : i \in 1..Len(ast)} :
                  \A j \in C30_Movs(b) : At(prog, b).code[j].dest \in C30_FnDeclared(fn)

\* the same statement for the programs that hold no define in argument position
C30_HoistedOwnScope ==
    ast \notin {DefineInArg(v) : v \in Lits} \cup {DefineInArgCaptured(v) : v \in Lits}
               \cup {DefineInArgNested(v) : v \in Lits}
    => C30_OwnScopeRegister

\* a := 1, b := 2, x := 1, f := () => out(x := 'a'), f(): the block of f,
\* which declares no name, holds a MOV into the register of x of the main block
C30_MovIntoEnclosing ==
    /\ ast = DefineInArg(StringLiteral(<<97>>))
    /\ status # "compile_error"
    /\ \E j \in C30_Movs(1) : \E m \in C30_Movs(0) :
           /\ At(prog, 1).code[j].dest = At(prog, 0).code[m].dest
           /\ At(prog, 1).code[j].dest >= At(prog, 1).slots

(***************************************************************************)
(* C31.  Assignment to the empty identifier.                               *)
(***************************************************************************)
\* C31: for every expression e the program _ := e passes analysis and code
\* generation without error, emits no MOV, and evaluates to the value of e.
C31_DiscardAccepted ==
    \A e \in Discarded :
        ast = Discard(e)
        => /\ status # "compile_error"
           /\ \A b \in 1..Len(prog) :
                  \A j \in 1..Len(prog[b].code) : prog[b].code[j].op.o # "Mov"
           /\ (status = "done" /\ e \in Lits) => result = ValOf(e)

\* the code generator by itself accepts the discard and emits no MOV for it
C31_GeneratorAccepts ==
    \A e \in Discarded :
        ast = Discard(e)
        => /\ generate(ast, rev).err = NoErr
           /\ \A b \in 1..Len(generate(ast, rev).prog) :
                  \A j \in 1..Len(generate(ast, rev).prog[b].code) :
                      generate(ast, rev).prog[b].code[j].op.o # "Mov"

\* _ := 1 was rejected by the analysis
C31_Rejected ==
    /\ ast = Discard(NumberLiteral(1))
    /\ status = "compile_error"
    /\ error = "InvalidAssignment"

(***************************************************************************)
(* C32.  Canonical composite keys.                                         *)
(***************************************************************************)
\* key values of the four kinds of rendering
C32_KeyVals ==
    {Number(1), Str(<<49>>), Bool(TRUE), Str(<<116, 114, 117, 101>>), Str(<<97>>), Str(<<98>>),
     Number(0), Number(2), Null}

\* a SET_COMP on a composite makes the value readable under every key that
\* renders as the key it was set with, and adds at most one entry: none when
\* an entry of that rendering exists
C32_SetStep ==
    (/\ Running
     /\ CurInst.op.o = "SetComp"
     /\ RegsOk(Top, {CurInst.op.c, CurInst.op.key, CurInst.op.v})
     /\ Rd(Top, CurInst.op.c).t = "Comp"
     /\ to_ink_string(Rd(Top, CurInst.op.key)).ok)
    => /\ \A k2 \in C32_KeyVals :
              to_ink_string(k2).s = to_ink_string(Rd(Top, CurInst.op.key)).s
              => Comp_get(At(comps', Rd(Top, CurInst.op.c).id), k2) = Rd(Top, CurInst.op.v)
       /\ Cardinality(DOMAIN At(comps', Rd(Top, CurInst.op.c).id))
              <= Cardinality(DOMAIN At(comps, Rd(Top, CurInst.op.c).id)) + 1
       /\ (\E k2 \in C32_KeyVals :
              /\ to_ink_string(k2).s = to_ink_string(Rd(Top, CurInst.op.key)).s
              /\ Comp_get(At(comps, Rd(Top, CurInst.op.c).id), k2) # Null)
          => DOMAIN At(comps', Rd(Top, CurInst.op.c).id)
                 = DOMAIN At(comps, Rd(Top, CurInst.op.c).id)

\* c.(k1) := 'b', c.(k2) := v, c.(k1): the read yields v and c has one entry
\* when k1 and k2 render alike, and yields 'b' of two entries otherwise
C32_Programs ==
    \A k1, k2 \in CanonKeys, v \in Lits :
        ast = CanonTwice(k1, k2, v)
        => /\ ~Failed
           /\ status = "done"
              => IF to_ink_string(ValOf(k1)).s = to_ink_string(ValOf(k2)).s
                 THEN result = ValOf(v) /\ Cardinality(DOMAIN At(comps, 0)) = 1
                 ELSE result = Str(<<98>>) /\ Cardinality(DOMAIN At(comps, 0)) = 2

\* C32: two keys with the same rendering (the number 1 and '1', true and
\* 'true') address the same entry: SET_COMP(c, k1, v) followed by
\* GET_COMP(c, k2) yields v, and the entry count grows by at most one.
C32_CanonicalKeys == [][C32_SetStep /\ C32_Programs']_vars

\* c.(true) := 'b', c.('true') := 2, c.(true) gave 2 and c has one entry
C32_Witness ==
    /\ ast = CanonTwice(BooleanLiteral(TRUE), StringLiteral(<<116, 114, 117, 101>>),
                        NumberLiteral(2))
    /\ status = "done"
    /\ result = Number(2)
    /\ At(comps, 0) = (<<116, 114, 117, 101>> :> Number(2))

(***************************************************************************)
(* C33.  Operand reads resolve the heap.                                   *)
(***************************************************************************)
\* the value an instruction of the innermost frame is to use for register r
C33_Val(r) == or_from_heap(At(Top.regs, r), heap)

C33_Vals(regs) == [i \in 1..Len(regs) |-> C33_Val(regs[i])]

\* the step ends as the helper result r says: with its error, or with its
\* value in the destination register
C33_Delivers(r) ==
    IF r.err # NoErr
    THEN /\ status' = IF r.err = PanicErr THEN "panic" ELSE "error"
         /\ error' = r.err
    ELSE /\ status' \in {"running", "done"}
         /\ Len(stack') = Len(stack) => At(stack'[Len(stack)].regs, CurInst.dest) = r.v

C33_NegStep ==
    (/\ Running
     /\ CurInst.op.o = "Neg"
     /\ RegsOk(Top, {CurInst.op.r, CurInst.dest}))
    => /\ C33_Val(CurInst.op.r).t # "Escaped"
       /\ C33_Delivers(neg(C33_Val(CurInst.op.r)))

C33_BinStep ==
    (/\ Running
     /\ CurInst.op.o \in BinOps
     /\ RegsOk(Top, {CurInst.op.a, CurInst.op.b, CurInst.dest}))
    => /\ C33_Val(CurInst.op.a).t # "Escaped"
       /\ C33_Val(CurInst.op.b).t # "Escaped"
       /\ C33_Delivers(runtime_bin(CurInst.op.o, C33_Val(CurInst.op.a), C33_Val(CurInst.op.b)))

C33_NativeStep ==
    (/\ Running
     /\ CurInst.op.o = "Call"
     /\ RegsOk(Top, {CurInst.op.f, CurInst.dest} \cup SeqRange(CurInst.op.args))
     /\ C33_Val(CurInst.op.f).t = "NativeFunc")
    => /\ \A i \in 1..Len(CurInst.op.args) : C33_Val(CurInst.op.args[i]).t # "Escaped"
       /\ C33_Delivers(call_native(C33_Val(CurInst.op.f).f, C33_Vals(CurInst.op.args), comps))

C33_ClosureStep ==
    (/\ Running
     /\ CurInst.op.o = "Call"
     /\ RegsOk(Top, {CurInst.op.f} \cup SeqRange(CurInst.op.args))
     /\ C33_Val(CurInst.op.f).t = "Func"
     /\ callee_fits(C33_Val(CurInst.op.f).k, C33_Val(CurInst.op.f).captured, CurInst.op.args))
    => /\ status' = "running"
       /\ \A i \in 1..Len(CurInst.op.args) :
              /\ stack'[Len(stack')].regs[i] = C33_Val(CurInst.op.args[i])
              /\ stack'[Len(stack')].regs[i].t # "Escaped"

C33_SetStep ==
    (/\ Running
     /\ CurInst.op.o = "SetComp"
     /\ RegsOk(Top, {CurInst.op.c, CurInst.op.key, CurInst.op.v})
     /\ C33_Val(CurInst.op.c).t = "Comp"
     /\ to_ink_string(C33_Val(CurInst.op.key)).ok)
    => /\ C33_Val(CurInst.op.key).t # "Escaped"
       /\ C33_Val(CurInst.op.v).t # "Escaped"
       /\ status' \in {"running", "done"}
       /\ to_ink_string(C33_Val(CurInst.op.key)).s \in DOMAIN At(comps', C33_Val(CurInst.op.c).id)
       /\ At(comps', C33_Val(CurInst.op.c).id)[to_ink_string(C33_Val(CurInst.op.key)).s]
              = C33_Val(CurInst.op.v)

\* no entry of a composite is an Escaped reference
C33_EntriesConcrete ==
    \A i \in 1..Len(comps) : \A key \in DOMAIN comps[i] : comps[i][key].t # "Escaped"

\* C33: no Escaped value is passed to an arithmetic, comparison or negation
\* helper, passed to a native builtin, copied into a callee's argument
\* register, or stored as a key or entry of a composite; where an operand
\* register holds Escaped(i) the instruction uses heap[i].
C33_HeapTransparent ==
    [][/\ C33_NegStep
       /\ C33_BinStep
       /\ C33_NativeStep
       /\ C33_ClosureStep
       /\ C33_SetStep
       /\ C33_EntriesConcrete']_vars

\* with n escaped to slot 0: c.(f()) := n stored 1 under '1', out(string(n))
\* wrote 1 and n + n gave 2
C33_Witness ==
    /\ ast = EscapedOperands
    /\ status = "done"
    /\ heap = <<Number(1)>>
    /\ At(comps, 0) = (<<49>> :> Number(1))
    /\ stdout = <<49>>
    /\ result = Number(2)

(***************************************************************************)
(* C34.  Symmetry of value equality.                                       *)
(***************************************************************************)
\* an EQL gives the answer of the equality with its operands exchanged
C34_EqlStep ==
    (/\ Running
     /\ CurInst.op.o = "Eql"
     /\ RegsOk(Top, {CurInst.op.a, CurInst.op.b, CurInst.dest})
     /\ Len(stack') = Len(stack))
    => At(stack'[Len(stack)].regs, CurInst.dest)
           = Bool(Val_eq(C33_Val(CurInst.op.b), C33_Val(CurInst.op.a)))

\* l = r and r = l are the same boolean
C34_Programs ==
    \A l, r \in SymOperands :
        (ast = SymProgram(l, r) /\ status = "done")
        => /\ result.t = "Comp"
           /\ At(comps, result.id)[<<48>>].t = "Bool"
           /\ At(comps, result.id)[<<48>>] = At(comps, result.id)[<<49>>]

\* C34: value equality is symmetric: eq(a, b) = eq(b, a) for all values a
\* and b, in particular for a composite or a function compared with a number.
C34_EqSymmetric == [][C34_EqlStep /\ C34_Programs']_vars

\* the same statement for the comparisons of which neither operand is a
\* composite or a function
C34_ScalarSymmetric ==
    [][/\ (/\ Running
           /\ CurInst.op.o = "Eql"
           /\ RegsOk(Top, {CurInst.op.a, CurInst.op.b})
           /\ {C33_Val(CurInst.op.a).t, C33_Val(CurInst.op.b).t}
                  \cap {"Comp", "Func", "NativeFunc"} # {})
          \/ C34_EqlStep
       /\ \A l, r \in SymOperands :
              {l.k, r.k} \cap {"ListLiteral", "FnLiteral"} = {}
              => ((ast' = SymProgram(l, r) /\ status' = "done")
                  => At(comps', result'.id)[<<48>>] = At(comps', result'.id)[<<49>>])]_vars

\* x := [[1] = 1, 1 = [1]] gave [true, false]
C34_Asymmetric ==
    /\ ast = SymProgram(ListLiteral(<<NumberLiteral(1)>>), NumberLiteral(1))
    /\ status = "done"
    /\ At(comps, result.id) = ListOf2(Bool(TRUE), Bool(FALSE))

(***************************************************************************)
(* C35.  A captured variable referenced from a match clause.               *)
(***************************************************************************)
\* the programs in which g refers to x of the main scope from its second
\* clause and then again: g() is the value of x
C35_Reads(c) ==
    \A v \in Lits :
        ast = CaptureInClause(c, v) => ~Failed /\ (status = "done" => result = ValOf(v))

\* no step of those programs returns from g with a register the taken path
\* never wrote: the last instruction of g reads the register of x
C35_ReadStep ==
    (/\ Running
     /\ \E c \in {NumberLiteral(1), NumberLiteral(2)}, v \in Lits : ast = CaptureInClause(c, v)
     /\ Len(stack) = 2
     /\ CurInst.op.o = "Nop"
     /\ RegsOk(Top, {CurInst.dest}))
    => At(Top.regs, CurInst.dest) # Empty

\* C35: inside a function that references an enclosing-scope variable x from
\* the body of a match clause, every later reference to x in that function
\* reads x's current value whichever clause was taken; the skip after a
\* CALL_IF_EQ hit never jumps over an instruction whose destination register
\* is read afterwards.
C35_ClauseCapture ==
    [][C35_ReadStep /\ C35_Reads(NumberLiteral(1))' /\ C35_Reads(NumberLiteral(2))']_vars

\* the same statement where the clause that holds the reference is the one taken
C35_TakenClause ==
    [][(ast = CaptureInClause(NumberLiteral(1), NumberLiteral(1))
        \/ ast = CaptureInClause(NumberLiteral(1), NumberLiteral(2))
        \/ ast = CaptureInClause(NumberLiteral(1), StringLiteral(<<97>>)))
       \/ (C35_ReadStep /\ C35_Reads(NumberLiteral(2))')]_vars

\* x := 'a', g := () => (1 :: {1 -> 0, 2 -> x}, x), n := g(), n: the first
\* clause was taken and g() is Empty
C35_SkippedLoad ==
    /\ ast = CaptureInClause(NumberLiteral(1), StringLiteral(<<97>>))
    /\ status = "done"
    /\ heap = <<Str(<<97>>)>>
    /\ result = Empty

(***************************************************************************)
(* C36.  Argument registers of a call.                                     *)
(***************************************************************************)
\* a CALL of a closure whose operand registers exist writes each argument
\* below the callee block's slots and does not abort
C36_CallStep ==
    (/\ Running
     /\ CurInst.op.o = "Call"
     /\ RegsOk(Top, {CurInst.op.f} \cup SeqRange(CurInst.op.args))
     /\ C33_Val(CurInst.op.f).t = "Func"
     /\ InRange(prog, C33_Val(CurInst.op.f).k)
     /\ Len(C33_Val(CurInst.op.f).captured) <= Len(At(prog, C33_Val(CurInst.op.f).k).binds))
    => /\ Len(CurInst.op.args) <= At(prog, C33_Val(CurInst.op.f).k).slots
       /\ status' = "running"

\* f := () => 1 called with no, one or two arguments yields 1
C36_Programs ==
    \A args \in ArgLists :
        ast = SpareArgs(args) => ~Failed /\ (status = "done" => result = Number(1))

\* C36: for every CALL of a closure each argument is written to a register
\* index below the callee block's slots, for every argument count, also with
\* more arguments than declared parameters (f := () => 1, f(1, 2)); the call
\* never aborts the VM by an out-of-range register write.
C36_ArgumentsInBounds == [][C36_CallStep /\ C36_Programs']_vars

\* the same statement for the calls whose arguments number at most the
\* callee block's registers
C36_FittingCalls ==
    [][/\ (/\ Running
           /\ CurInst.op.o = "Call"
           /\ RegsOk(Top, {CurInst.op.f} \cup SeqRange(CurInst.op.args))
           /\ C33_Val(CurInst.op.f).t = "Func"
           /\ callee_fits(C33_Val(CurInst.op.f).k, C33_Val(CurInst.op.f).captured,
                          CurInst.op.args))
          => status' = "running"
       /\ \A args \in ArgLists \ {<<NumberLiteral(1), NumberLiteral(2)>>} :
              ast' = SpareArgs(args) => ~Failed' /\ (status' = "done" => result' = Number(1))]_vars

\* f := () => 1, x := f(1, 2): the call panicked on the second argument
C36_SpareArgumentPanics ==
    /\ ast = SpareArgs(<<NumberLiteral(1), NumberLiteral(2)>>)
    /\ status = "panic"
    /\ Len(stack) = 1
    /\ CurInst.op.o = "Call"
    /\ Len(CurInst.op.args) = 2
    /\ At(prog, 1).slots = 1

\* The frames of the ghost stack that frame replacement keeps: a frame at
\* its end beneath the top is dropped, and the first frame above a run of
\* dropped frames takes the return register of the lowest of them.
RECURSIVE C37_Replaced(_, _, _, _)
C37_Replaced(stk, i, pend, acc) ==
    IF i > Len(stk) THEN acc
    ELSE IF i < Len(stk) /\ stk[i].ip = Len(At(prog, stk[i].block).code)
    THEN C37_Replaced(stk, i + 1, IF pend = -1 THEN stk[i].rp ELSE pend, acc)
    ELSE C37_Replaced(stk, i + 1, -1,
                      Append(acc, IF pend = -1 THEN stk[i]
                                  ELSE [stk[i] EXCEPT !.rp = pend]))

C37_SameObservation ==
    /\ kept.status = status
    /\ kept.result = result
    /\ status = "running" => C37_Replaced(kept.stack, 1, -1, <<>>) = stack

C37_ReturnedTwice ==
    /\ ast = CountDown(1)
    /\ status = "done"
    /\ kept.status = "done"
    /\ result = kept.result

C37_OnlyReplacingFinishes ==
    ~(ast = CountDown(4) /\ status = "done" /\ kept.status = "exit2")

(***************************************************************************)
(* C38.  Block indices.                                                    *)
(***************************************************************************)
\* a function literal, match-clause body or expression list met while a
\* block is generated, with the statements its own block is generated from
C38_Lit(nodes) == [t |-> "Lit", nodes |-> nodes]

\* the constants a node adds to the block it is lowered in, in the order of
\* the lowering: the scalar literals by value, the index of a list item, and
\* C38_Lit where the constant is the Func of a block of its own
RECURSIVE C38_Consts(_)
RECURSIVE C38_ConstsEach(_, _)
RECURSIVE C38_Items(_, _)
C38_Consts(node) ==
    CASE node.k = "UnaryExpr" -> C38_Consts(node.arg)
      [] node.k = "BinaryExpr" /\ node.op = "DefineOp" ->
             C38_Consts(node.right)
             \o (IF node.left.k = "BinaryExpr" /\ node.left.op = "AccessorOp"
                 THEN C38_Consts(node.left.left) \o C38_Consts(key_node(node.left.right))
                 ELSE <<>>)
      [] node.k = "BinaryExpr" /\ node.op = "AccessorOp" ->
             C38_Consts(node.left) \o C38_Consts(key_node(node.right))
      [] node.k = "BinaryExpr" /\ node.op \notin {"DefineOp", "AccessorOp"} ->
             C38_Consts(node.left) \o C38_Consts(node.right)
      [] node.k = "FnCall" -> C38_Consts(node.func) \o C38_ConstsEach(node.args, 1)
      [] node.k = "MatchClause" ->
             C38_Consts(node.target) \o <<C38_Lit(body_nodes(node.expr))>>
      [] node.k = "MatchExpr" -> C38_Consts(node.cond) \o C38_ConstsEach(node.clauses, 1)
      [] node.k = "ExprList" ->
             IF Len(node.exprs) = 0 THEN <<Null>> ELSE <<C38_Lit(node.exprs)>>
      [] node.k = "NumberLiteral" -> <<Number(node.n)>>
      [] node.k = "StringLiteral" -> <<Str(node.s)>>
      [] node.k = "BooleanLiteral" -> <<Bool(node.b)>>
      [] node.k = "ObjectEntry" -> C38_Consts(key_node(node.key)) \o C38_Consts(node.val)
      [] node.k = "ObjectLiteral" -> C38_ConstsEach(node.entries, 1)
      [] node.k = "ListLiteral" -> C38_Items(node.items, 1)
      [] node.k = "FnLiteral" -> <<C38_Lit(body_nodes(node.body))>>
      [] OTHER -> <<>>

C38_ConstsEach(nodes, i) ==
    IF i > Len(nodes) THEN <<>>
    ELSE C38_Consts(nodes[i]) \o C38_ConstsEach(nodes, i + 1)

C38_Items(items, i) ==
    IF i > Len(items) THEN <<>>
    ELSE <<Number(i - 1)>> \o C38_Consts(items[i]) \o C38_Items(items, i + 1)

\* consts are the constants of a block generated from statements that add
\* the constants want: every Func among them is the index of a block behind
\* the main block, and that block is the one generated from the statements
\* of the literal at the same position
RECURSIVE C38_Linked(_, _)
C38_Linked(consts, want) ==
    /\ Len(consts) = Len(want)
    /\ \A j \in 1..Len(want) :
           IF want[j].t = "Lit"
           THEN /\ consts[j].t = "Func"
                /\ 0 < consts[j].k
                /\ consts[j].k < Len(prog)
                /\ C38_Linked(At(prog, consts[j].k).consts,
                              C38_ConstsEach(want[j].nodes, 1))
           ELSE consts[j] = want[j]

\* the Func constants of the program, by block and position
C38_Funcs ==
    {bj \in UNION {{<<b, j>> : j \in 1..Len(prog[b].consts)} : b \in 1..Len(prog)} :
        prog[bj[1]].consts[bj[2]].t = "Func"}

\* C38: block 0 of the generated program is the main block, the constants of
\* the main block after the builtins are those of the program's statements,
\* every Func(k, _) constant of the program has 0 < k < program length, and
\* block k is the block generated from the function literal, match-clause
\* body or expression list that produced the constant; every block behind
\* the main block belongs to exactly one Func constant.
C38_BlocksLinked ==
    status # "compile_error"
    => /\ C38_Linked(SubSeq(At(prog, 0).consts, Cardinality(Builtins) + 1,
                            Len(At(prog, 0).consts)),
                     C38_ConstsEach(ast, 1))
       /\ \A bj \in C38_Funcs :
              /\ 0 < prog[bj[1]].consts[bj[2]].k
              /\ prog[bj[1]].consts[bj[2]].k < Len(prog)
       /\ \A k \in 1..(Len(prog) - 1) :
              Cardinality({bj \in C38_Funcs : prog[bj[1]].consts[bj[2]].k = k}) = 1

\* a program with a literal inside a literal was generated: a block behind
\* the main block holds the Func constant of another
C38_Witness ==
    /\ status # "compile_error"
    /\ Len(prog) >= 3
    /\ \E bj \in C38_Funcs : bj[1] > 1 /\ prog[bj[1]].consts[bj[2]].k > 0

(***************************************************************************)
(* C39.  Instruction pointers.                                             *)
(***************************************************************************)
\* every frame of the stack points at an instruction of its block
C39_BelowEnd ==
    status = "running"
    => \A i \in 1..Len(stack) :
           /\ 0 <= stack[i].ip
           /\ stack[i].ip < Len(At(prog, stack[i].block).code)

\* one loop iteration that goes on: the frames beneath the innermost one
\* stay where they are, and the innermost frame either moves forward or, at
\* its end after a CALL or CALL_IF_EQ, is replaced by the callee at 0
C39_Forward ==
    (status = "running" /\ status' = "running")
    => /\ Len(stack') >= Len(stack) - 1
       /\ \A i \in 1..(Len(stack) - 1) :
              /\ stack'[i].block = stack[i].block
              /\ stack'[i].ip = stack[i].ip
       /\ Len(stack') >= Len(stack)
          => \/ /\ stack'[Len(stack)].block = Top.block
                /\ stack'[Len(stack)].ip > Top.ip
             \/ /\ CurInst.op.o \in {"Call", "CallIfEq"}
                /\ Len(stack') = Len(stack)
                /\ stack'[Len(stack)].ip = 0
                /\ stack'[Len(stack)].rp = Top.rp

\* C39: at the start of every loop iteration every frame of the call stack
\* has its instruction pointer below the length of its block's code, and
\* within one frame the instruction pointer never decreases: the executing
\* frame moves forward in every iteration it survives, and the frames
\* beneath it stand still, so no instruction runs twice in one frame.
C39_IpMonotone == []C39_BelowEnd /\ [][C39_Forward]_vars

\* a callee is at its last instruction above a caller that has moved on
C39_Witness ==
    /\ status = "running"
    /\ Len(stack) >= 2
    /\ Top.ip > 0
    /\ Top.ip = Len(CurBlock.code) - 1
    /\ stack[Len(stack) - 1].ip > 0
====
